---------------------------- MODULE Spec2Model ----------------------------
(***************************************************************************)
(* Farm optimisation calculators for Cameroon (cost minimisation, balanced *)
(* agricultural optimisation, yield maximisation) and the reference data   *)
(* they read.                                                              *)
(*                                                                         *)
(* Numbers.  The program computes with Python floats.  The model computes  *)
(* the same expressions exactly: a value built with + - * from the decimal *)
(* literals of the source is a finite decimal (Dec), and the result of a   *)
(* Python "/" is kept as a quotient of two decimals (Ratio).  TLC's        *)
(* integers are 32 bits wide and the money amounts times their decimal     *)
(* places are not, so a Dec carries its digits in limbs of four decimal    *)
(* digits, least significant first.                                        *)
(***************************************************************************)
EXTENDS Integers, Sequences, FiniteSets, TLC

---------------------------------------------------------------------------
(* Exact decimals: value = (-1)^neg * mag * 10^(-4*exp).  Canonical form:  *)
(* no leading zero limb, no trailing zero limb while exp > 0, zero is      *)
(* positive; so equal values are equal records.                            *)

RECURSIVE ToMag(_)
ToMag(n) == IF n = 0 THEN <<>> ELSE <<n % 10000>> \o ToMag(n \div 10000)

RECURSIVE Trim(_)
Trim(s) ==
    IF s = <<>> THEN <<>>
    ELSE IF s[Len(s)] = 0 THEN Trim(SubSeq(s, 1, Len(s) - 1)) ELSE s

RECURSIVE Canon(_, _, _)
Canon(neg, mag, exp) ==
    IF mag = <<>> THEN [neg |-> FALSE, mag |-> <<>>, exp |-> 0]
    ELSE IF exp > 0 /\ Head(mag) = 0 THEN Canon(neg, Tail(mag), exp - 1)
    ELSE [neg |-> neg, mag |-> mag, exp |-> exp]

RECURSIVE MagAdd(_, _, _)
MagAdd(a, b, c) ==
    IF a = <<>> /\ b = <<>> THEN (IF c = 0 THEN <<>> ELSE <<c>>)
    ELSE LET x == IF a = <<>> THEN 0 ELSE Head(a)
             y == IF b = <<>> THEN 0 ELSE Head(b)
             t == x + y + c
         IN  <<t % 10000>> \o MagAdd(IF a = <<>> THEN a ELSE Tail(a),
                                     IF b = <<>> THEN b ELSE Tail(b),
                                     t \div 10000)

\* a - b - c for a >= b + c
RECURSIVE MagSub(_, _, _)
MagSub(a, b, c) ==
    IF a = <<>> THEN <<>>
    ELSE LET y == IF b = <<>> THEN 0 ELSE Head(b)
             t == Head(a) - y - c
         IN  <<t % 10000>> \o MagSub(Tail(a),
                                     IF b = <<>> THEN b ELSE Tail(b),
                                     IF t < 0 THEN 1 ELSE 0)

\* -1, 0, 1 as a < b, a = b, a > b (both without leading zero limbs)
RECURSIVE MagCmp(_, _)
MagCmp(a, b) ==
    IF Len(a) # Len(b) THEN (IF Len(a) < Len(b) THEN -1 ELSE 1)
    ELSE IF a = <<>> THEN 0
    ELSE IF a[Len(a)] # b[Len(b)] THEN (IF a[Len(a)] < b[Len(b)] THEN -1 ELSE 1)
    ELSE MagCmp(SubSeq(a, 1, Len(a) - 1), SubSeq(b, 1, Len(b) - 1))

RECURSIVE MagMulLimb(_, _, _)
MagMulLimb(a, m, c) ==
    IF a = <<>> THEN (IF c = 0 THEN <<>> ELSE <<c>>)
    ELSE LET t == Head(a) * m + c
         IN  <<t % 10000>> \o MagMulLimb(Tail(a), m, t \div 10000)

RECURSIVE MagMul(_, _)
MagMul(a, b) ==
    IF a = <<>> \/ b = <<>> THEN <<>>
    ELSE MagAdd(MagMulLimb(a, Head(b), 0),
                IF Len(b) = 1 THEN <<>> ELSE <<0>> \o MagMul(a, Tail(b)), 0)

Zeros(k) == [i \in 1..k |-> 0]

\* the digits of x at exponent e >= x.exp
Align(x, e) == IF x.mag = <<>> THEN <<>> ELSE Zeros(e - x.exp) \o x.mag

Dec(n) == Canon(n < 0, ToMag(IF n < 0 THEN -n ELSE n), 0)

\* the literal n / 10^k, 0 <= k <= 4 (0.85 is Lit(85, 2))
Lit(n, k) ==
    LET p == CASE k = 0 -> 10000 [] k = 1 -> 1000 [] k = 2 -> 100
               [] k = 3 -> 10 [] OTHER -> 1
    IN  Canon(n < 0, ToMag((IF n < 0 THEN -n ELSE n) * p), 1)

Zero == Dec(0)

DNeg(x) == IF x.mag = <<>> THEN x ELSE [x EXCEPT !.neg = ~x.neg]

\* the sum of two signed magnitudes a, b at the same exponent e, where c
\* is MagCmp(a, b)
AddMags(xneg, a, yneg, b, e, c) ==
    Canon(IF xneg = yneg \/ c > 0 THEN xneg ELSE yneg,
          IF xneg = yneg THEN MagAdd(a, b, 0)
          ELSE IF c = 0 THEN <<>>
          ELSE IF c > 0 THEN Trim(MagSub(a, b, 0))
          ELSE Trim(MagSub(b, a, 0)),
          e)

AddAligned(xneg, a, yneg, b, e) == AddMags(xneg, a, yneg, b, e, MagCmp(a, b))

AddAt(x, y, e) == AddAligned(x.neg, Align(x, e), y.neg, Align(y, e), e)

DAdd(x, y) == AddAt(x, y, IF x.exp > y.exp THEN x.exp ELSE y.exp)

DSub(x, y) == DAdd(x, DNeg(y))

DMul(x, y) == Canon(x.neg # y.neg, MagMul(x.mag, y.mag), x.exp + y.exp)

DLt(x, y) == DSub(x, y).neg
DLe(x, y) == ~DLt(y, x)
DPos(x) == x.mag # <<>> /\ ~x.neg
IsZero(x) == x.mag = <<>>

(* Quotients: the value of a Python "/".  den is never zero (the division  *)
(* raises ZeroDivisionError instead) and is kept positive.  Two quotients  *)
(* are the same number iff QEq holds.                                      *)
Ratio(n, d) == IF d.neg THEN [num |-> DNeg(n), den |-> DNeg(d)]
               ELSE [num |-> n, den |-> d]
Whole(x) == [num |-> x, den |-> Dec(1)]
QMul(q, x) == [num |-> DMul(q.num, x), den |-> q.den]
QDiv(p, q) == Ratio(DMul(p.num, q.den), DMul(p.den, q.num))
QEq(p, q) == DMul(p.num, q.den) = DMul(q.num, p.den)
QLt(p, q) == DLt(DMul(p.num, q.den), DMul(q.num, p.den))

\* floor(n / d) for decimals n >= 0, d > 0, as an integer: long division,
\* one decimal digit of the quotient per step
FloorDigit(d, r) ==
    CHOOSE k \in 0..9 : /\ DLe(DMul(Dec(k), d), r)
                        /\ DLt(r, DMul(Dec(k + 1), d))

FloorStep(n, d, h) == 10 * h + FloorDigit(d, DSub(n, DMul(Dec(10 * h), d)))

RECURSIVE FloorPos(_, _)
FloorPos(n, d) ==
    IF DLt(n, d) THEN 0 ELSE FloorStep(n, d, FloorPos(n, DMul(d, Dec(10))))

\* floor of a negative quotient from f, the floor of its absolute value
FloorNeg(q, f) == IF DMul(Dec(f), q.den) = DNeg(q.num) THEN -f ELSE -f - 1

\* floor of a quotient (Python's "//" on floats, and the integer part a
\* format specification rounds from)
QFloor(q) ==
    IF ~q.num.neg THEN FloorPos(q.num, q.den)
    ELSE FloorNeg(q, FloorPos(DNeg(q.num), q.den))

\* the integer nearest to f + twice / (2 * den), ties to even
RoundHalfEven(f, twice, den) ==
    IF DLt(twice, den) THEN f
    ELSE IF twice = den THEN (IF f % 2 = 0 THEN f ELSE f + 1)
    ELSE f + 1

RoundFrom(q, f) ==
    RoundHalfEven(f, DSub(DMul(q.num, Dec(2)), DMul(Dec(2 * f), q.den)), q.den)

\* format(q, ".0f"), ".1f", ".2f": the decimal with that many places nearest
\* to q.  The values here are exact decimals; the program's are binary
\* floats, so on an exact decimal tie (21.615 printed to two places) the
\* program's last digit follows the float's binary expansion and may be one
\* lower than the half-even digit computed here.
RoundUnits(q) == RoundFrom(q, QFloor(q))
Format0f(q) == Dec(RoundUnits(q))
Format1f(q) == Lit(RoundUnits(QMul(q, Dec(10))), 1)
Format2f(q) == Lit(RoundUnits(QMul(q, Dec(100))), 2)

---------------------------------------------------------------------------
(* Reference data tables (cameroon_agri_data.py).  They are module-level   *)
(* dictionaries of the running program, so they are part of its state:     *)
(* the variable tables holds them, and every calculator reads them there.  *)

VARIABLES tables, self, ret, sweep

vars == <<tables, self, ret, sweep>>

ReferenceData ==
    [LAND_PREP_COSTS |->
        [tillage_per_ha |-> 65000, harrowing_per_ha |-> 32000,
         irrigation_setup_per_ha |-> 85000],
     SEED_COSTS |->
        [maize_improved |-> 2100, maize_local |-> 800, rice_improved |-> 1800,
         rice_local |-> 700, cassava_stems |-> 400, groundnut |-> 1200,
         beans |-> 1500],
     SEED_REQUIREMENTS |->
        [maize_improved |-> 25, maize_local |-> 30, rice_improved |-> 80,
         rice_local |-> 100, groundnut |-> 90, beans |-> 70],
     FERTILIZER_COSTS |->
        [npk_compound |-> 32000, urea |-> 28000, dap |-> 35000,
         organic_manure_ton |-> 18000],
     FERTILIZER_REQUIREMENTS |->
        [maize |-> [npk_bags |-> 4, urea_bags |-> 3],
         rice |-> [npk_bags |-> 5, urea_bags |-> 4],
         cassava |-> [npk_bags |-> 3, organic_manure_tons |-> 2],
         groundnut |-> [npk_bags |-> 2, organic_manure_tons |-> 1],
         beans |-> [npk_bags |-> 2, dap_bags |-> 2]],
     PESTICIDE_COSTS |->
        [herbicide_per_ha |-> 28000, insecticide_per_ha |-> 22000,
         fungicide_per_ha |-> 18000],
     LABOR_COSTS |->
        [daily_wage |-> 1800, planting_days_per_ha |-> 8,
         weeding_days_per_ha |-> 12, harvesting_days_per_ha |-> 10,
         other_operations_days_per_ha |-> 6],
     IRRIGATION_COSTS |->
        [water_cost_per_ha_season |-> 45000, pump_operation_per_ha |-> 35000],
     EQUIPMENT_COSTS |->
        [tractor_ploughing_per_ha |-> 65000, tractor_harrowing_per_ha |-> 32000,
         mechanical_planting_per_ha |-> 25000,
         mechanical_harvesting_per_ha |-> 55000,
         fuel_operations_per_ha |-> 28000],
     TRANSPORT_COSTS |->
        [farm_to_market_per_ton |-> 8500, storage_per_ton_month |-> 3500],
     STORAGE_COSTS |->
        [on_farm_storage_per_ton |-> 2500, improved_storage_per_ton |-> 6000],
     \* tons per hectare, in tenths
     EXPECTED_YIELDS |->
        [maize_with_inputs |-> 35, maize_basic |-> 18,
         rice_with_inputs |-> 42, rice_basic |-> 20,
         cassava_with_inputs |-> 180, cassava_basic |-> 120,
         groundnut_with_inputs |-> 25, groundnut_basic |-> 12,
         beans_with_inputs |-> 18, beans_basic |-> 9],
     \* tons per hectare, in tenths
     OPTIMAL_YIELDS |->
        [maize |-> 45, rice |-> 55, cassava |-> 220, groundnut |-> 30,
         beans |-> 22],
     MARKET_PRICES |->
        [maize |-> 617, rice |-> 850, cassava_fresh |-> 180,
         cassava_processed |-> 450, groundnut |-> 1100, beans |-> 950],
     FARMGATE_PRICES |->
        [maize |-> 480, rice |-> 680, cassava_fresh |-> 150,
         cassava_processed |-> 380, groundnut |-> 900, beans |-> 780],
     CROP_SEASONS |->
        [maize |-> [growing_days |-> 120, seasons_per_year |-> 2],
         rice |-> [growing_days |-> 120, seasons_per_year |-> 2],
         cassava |-> [growing_days |-> 365, seasons_per_year |-> 1],
         groundnut |-> [growing_days |-> 100, seasons_per_year |-> 2],
         beans |-> [growing_days |-> 90, seasons_per_year |-> 2]],
     \* fraction lost, in hundredths
     POST_HARVEST_LOSSES |->
        [maize |-> 11, rice |-> 15, cassava |-> 30, groundnut |-> 12,
         beans |-> 10]]

LAND_PREP_COSTS == tables.LAND_PREP_COSTS
SEED_COSTS == tables.SEED_COSTS
SEED_REQUIREMENTS == tables.SEED_REQUIREMENTS
FERTILIZER_COSTS == tables.FERTILIZER_COSTS
FERTILIZER_REQUIREMENTS == tables.FERTILIZER_REQUIREMENTS
PESTICIDE_COSTS == tables.PESTICIDE_COSTS
LABOR_COSTS == tables.LABOR_COSTS
IRRIGATION_COSTS == tables.IRRIGATION_COSTS
EQUIPMENT_COSTS == tables.EQUIPMENT_COSTS
TRANSPORT_COSTS == tables.TRANSPORT_COSTS
STORAGE_COSTS == tables.STORAGE_COSTS
EXPECTED_YIELDS == tables.EXPECTED_YIELDS
OPTIMAL_YIELDS == tables.OPTIMAL_YIELDS
MARKET_PRICES == tables.MARKET_PRICES
FARMGATE_PRICES == tables.FARMGATE_PRICES
CROP_SEASONS == tables.CROP_SEASONS
POST_HARVEST_LOSSES == tables.POST_HARVEST_LOSSES

\* dict.get(key, default)
Get(d, key, default) == IF key \in DOMAIN d THEN d[key] ELSE default

\* sum(costs.values())
RECURSIVE SumOver(_, _)
SumOver(costs, keys) ==
    IF keys = {} THEN Zero
    ELSE LET k == CHOOSE k \in keys : TRUE
         IN  DAdd(costs[k], SumOver(costs, keys \ {k}))
SumValues(costs) == SumOver(costs, DOMAIN costs)

\* costs['total_cost'] = sum(costs.values())
WithTotal(costs) == costs @@ [total_cost |-> SumValues(costs)]

\* tenths and hundredths of the tables as decimals
Tenths(n) == Lit(n, 1)
Hundredths(n) == Lit(n, 2)

total_labor_days ==
    LABOR_COSTS.planting_days_per_ha + LABOR_COSTS.weeding_days_per_ha
        + LABOR_COSTS.harvesting_days_per_ha
        + LABOR_COSTS.other_operations_days_per_ha

---------------------------------------------------------------------------
(* AgriculturalOptimizationCalculator (agricultural_optimization.py).      *)
(* An instance is [crop_type, land_size, priority, input_level].  A method *)
(* that raises returns [raised |-> <exception>]; one that returns has      *)
(* raised = "none" and the fields of the returned dictionary.              *)

\* __init__
AgriculturalOptimizationCalculator(crop_type, land_size_hectares, priority) ==
    [class |-> "AgriculturalOptimizationCalculator",
     crop_type |-> crop_type,
     land_size |-> land_size_hectares,
     priority |-> priority,
     input_level |-> IF priority = "yield_focus" THEN Lit(85, 2)
                     ELSE IF priority = "cost_focus" THEN Lit(65, 2)
                     ELSE Lit(75, 2)]

\* the fertilizer cost per hectare of a crop that has requirements
OptimizedFertilizer(fert_req, input_factor) ==
    LET bags(kind, price) ==
            IF kind \in DOMAIN fert_req
            THEN DMul(DMul(Dec(fert_req[kind]), input_factor), Dec(price))
            ELSE Zero
    IN  DAdd(DAdd(DAdd(bags("npk_bags", FERTILIZER_COSTS.npk_compound),
                       bags("urea_bags", FERTILIZER_COSTS.urea)),
                  bags("dap_bags", FERTILIZER_COSTS.dap)),
             DMul(IF "organic_manure_tons" \in DOMAIN fert_req
                  THEN Dec(fert_req.organic_manure_tons) ELSE Lit(15, 1),
                  Dec(FERTILIZER_COSTS.organic_manure_ton)))

\* the seed key the balanced strategy looks up
OptimizedSeedKey(crop) ==
    IF crop \o "_improved" \in DOMAIN SEED_COSTS
    THEN crop \o "_improved" ELSE crop

\* steps 1 to 9: the line items before the yield is known
OptimizedItems(crop, land_size, input_factor, seed_key) ==
    [land_preparation |->
        DMul(DAdd(DMul(Dec(LAND_PREP_COSTS.tillage_per_ha), Lit(85, 2)),
                  DMul(Dec(LAND_PREP_COSTS.harrowing_per_ha), Lit(7, 1))),
             land_size),
     seeds |->
        DMul(DMul(DMul(Dec(Get(SEED_COSTS, seed_key,
                               Get(SEED_COSTS, crop \o "_local", 1000))),
                       Dec(Get(SEED_REQUIREMENTS, seed_key,
                               Get(SEED_REQUIREMENTS, crop, 25)))),
                  input_factor), land_size),
     fertilizers |->
        IF crop \in DOMAIN FERTILIZER_REQUIREMENTS
        THEN DMul(OptimizedFertilizer(FERTILIZER_REQUIREMENTS[crop], input_factor),
                  land_size)
        ELSE DMul(DMul(Lit(15, 1), Dec(FERTILIZER_COSTS.organic_manure_ton)),
                  land_size),
     pesticides |->
        DMul(DAdd(DMul(Dec(PESTICIDE_COSTS.herbicide_per_ha), Lit(9, 1)),
                  DMul(Dec(PESTICIDE_COSTS.insecticide_per_ha), Lit(8, 1))),
             land_size),
     labor |->
        DMul(DMul(DMul(Dec(total_labor_days), Lit(7, 1)),
                  Dec(LABOR_COSTS.daily_wage)), land_size),
     equipment |->
        DMul(DAdd(DAdd(DMul(Dec(EQUIPMENT_COSTS.tractor_ploughing_per_ha),
                            Lit(85, 2)),
                       DMul(Dec(EQUIPMENT_COSTS.tractor_harrowing_per_ha),
                            Lit(5, 1))),
                  DMul(Dec(EQUIPMENT_COSTS.fuel_operations_per_ha),
                       Lit(7, 1))),
             land_size),
     irrigation |->
        DMul(IF DLt(Lit(7, 1), input_factor)
             THEN DMul(Dec(IRRIGATION_COSTS.pump_operation_per_ha), Lit(3, 1))
             ELSE Zero,
             land_size),
     transportation |-> Zero,
     storage |-> Zero]

\* the cost dictionary with its preliminary total
OptimizedCosts(this) ==
    WithTotal(OptimizedItems(this.crop_type, this.land_size, this.input_level,
                             OptimizedSeedKey(this.crop_type)))

\* expected yield per hectare at an input level
\* as OptimizedYield, but the yield falls as the input level rises
OptimizedYield_Falling(crop, input_factor) ==
    IF crop \in DOMAIN OPTIMAL_YIELDS
    THEN DMul(Tenths(OPTIMAL_YIELDS[crop]),
              DSub(Lit(105, 2), DMul(input_factor, Lit(45, 2))))
    ELSE Tenths(Get(EXPECTED_YIELDS, crop \o "_with_inputs", 25))

OptimizedYield(crop, input_factor) ==
    IF crop \in DOMAIN OPTIMAL_YIELDS
    THEN DMul(Tenths(OPTIMAL_YIELDS[crop]),
              DAdd(Lit(60, 2), DMul(input_factor, Lit(45, 2))))
    ELSE Tenths(Get(EXPECTED_YIELDS, crop \o "_with_inputs", 25))

\* as Production, but for one hectare whatever the land size
Production_OneHectare(yield_per_ha, land_size, loss_rate) ==
    [yield_per_ha |-> yield_per_ha,
     loss_rate |-> loss_rate,
     total |-> yield_per_ha,
     marketable |-> DMul(yield_per_ha, DSub(Dec(1), loss_rate))]

\* production and post-harvest loss from a yield per hectare and a loss rate
Production(yield_per_ha, land_size, loss_rate) ==
    [yield_per_ha |-> yield_per_ha,
     loss_rate |-> loss_rate,
     total |-> DMul(yield_per_ha, land_size),
     marketable |->
        DMul(DMul(yield_per_ha, land_size), DSub(Dec(1), loss_rate))]

OptimizedProduction(this) ==
    Production(OptimizedYield(this.crop_type, this.input_level), this.land_size,
               DMul(Hundredths(Get(POST_HARVEST_LOSSES, this.crop_type, 10)),
                    Lit(7, 1)))

\* as AddTransportStorage, but the total keeps its preliminary value
AddTransportStorage_StaleTotal(costs, transport_cost, storage_cost) ==
    [costs EXCEPT !.transportation = transport_cost, !.storage = storage_cost]

\* steps 10 and 11: the production-dependent items enter the dictionary and
\* the total
AddTransportStorage(costs, transport_cost, storage_cost) ==
    [costs EXCEPT
        !.transportation = transport_cost,
        !.storage = storage_cost,
        !.total_cost = DAdd(DAdd(@, transport_cost), storage_cost)]

OptimizedFinalCosts(costs, marketable_production) ==
    AddTransportStorage(costs,
        DMul(DMul(marketable_production,
                  Dec(TRANSPORT_COSTS.farm_to_market_per_ton)), Lit(85, 2)),
        DMul(DMul(marketable_production,
                  Dec(STORAGE_COSTS.improved_storage_per_ton)), Lit(5, 1)))

\* revenue and profit of the two calculators that price at FARMGATE_PRICES
\* with default 500
NetOf(price_per_kg, gross_revenue, transport_cost, total_cost) ==
    [price_per_kg |-> price_per_kg,
     gross_revenue |-> gross_revenue,
     net_revenue |-> DSub(gross_revenue, transport_cost),
     net_profit |-> DSub(DSub(gross_revenue, transport_cost), total_cost)]

Revenue(crop, marketable_production, transport_cost, total_cost) ==
    NetOf(Dec(Get(FARMGATE_PRICES, crop, 500)),
          DMul(DMul(marketable_production, Dec(1000)),
               Dec(Get(FARMGATE_PRICES, crop, 500))),
          transport_cost, total_cost)

\* (net_profit / total_cost * 100) if total_cost > 0 else 0
RoiOf(net_profit, total_cost) ==
    IF DPos(total_cost) THEN QMul(Ratio(net_profit, total_cost), Dec(100))
    ELSE Whole(Zero)

\* x / (marketable_production * 1000) if marketable_production > 0 else 0
PerKg(x, marketable_production) ==
    IF DPos(marketable_production)
    THEN Ratio(x, DMul(marketable_production, Dec(1000)))
    ELSE Whole(Zero)

\* the returned dictionary
OptimizedResult(this, costs, prod, rev, crop_info) ==
    IF IsZero(this.land_size)
    THEN \* profit_per_hectare = net_profit / self.land_size
         [raised |-> "ZeroDivisionError"]
    ELSE [raised |-> "none",
          crop_type |-> this.crop_type,
          land_size_hectares |-> this.land_size,
          land_size_acres |-> DMul(this.land_size, Lit(2471, 3)),
          strategy |-> "AGRICULTURAL OPTIMIZATION",
          input_level_percentage |-> DMul(this.input_level, Dec(100)),
          cost_breakdown |-> costs,
          cost_per_hectare |-> Ratio(costs.total_cost, this.land_size),
          expected_yield_per_ha_tons |-> prod.yield_per_ha,
          total_production_tons |-> prod.total,
          total_production_kg |-> DMul(prod.total, Dec(1000)),
          marketable_production_tons |-> prod.marketable,
          post_harvest_loss_percentage |-> DMul(prod.loss_rate, Dec(100)),
          post_harvest_loss_tons |-> DSub(prod.total, prod.marketable),
          farmgate_price_per_kg |-> rev.price_per_kg,
          gross_revenue |-> rev.gross_revenue,
          transportation_cost |-> costs.transportation,
          net_revenue |-> rev.net_revenue,
          net_profit |-> rev.net_profit,
          roi_percentage |-> RoiOf(rev.net_profit, costs.total_cost),
          break_even_price_per_kg |-> PerKg(costs.total_cost, prod.marketable),
          profit_per_hectare |-> Ratio(rev.net_profit, this.land_size),
          cost_per_kg_produced |-> PerKg(costs.total_cost, prod.marketable),
          profit_per_kg_produced |-> PerKg(rev.net_profit, prod.marketable),
          production_efficiency |->
              IF DPos(costs.total_cost)
              THEN QDiv(Ratio(prod.marketable, this.land_size),
                        Ratio(costs.total_cost, this.land_size))
              ELSE Whole(Zero),
          growing_days |-> Get(crop_info, "growing_days", "N/A"),
          seasons_per_year |-> Get(crop_info, "seasons_per_year", 1)]

OptimizedPriced(this, costs, prod) ==
    OptimizedResult(this, costs, prod,
                    Revenue(this.crop_type, prod.marketable,
                            costs.transportation, costs.total_cost),
                    Get(CROP_SEASONS, this.crop_type, <<>>))

OptimizedProduced(this, prod) ==
    OptimizedPriced(this, OptimizedFinalCosts(OptimizedCosts(this), prod.marketable),
                    prod)

\* calculate_optimized_plan
calculate_optimized_plan(this) == OptimizedProduced(this, OptimizedProduction(this))

---------------------------------------------------------------------------
(* Helper functions of cameroon_agri_data.py, used by the yield            *)
(* maximisation calculator.                                                *)

\* the fertilizer cost per hectare: the sum over the four kinds of bag
FertilizerPerHa(fert_req) ==
    LET bags(kind, price) ==
            IF kind \in DOMAIN fert_req THEN fert_req[kind] * price ELSE 0
    IN  bags("npk_bags", FERTILIZER_COSTS.npk_compound)
            + bags("urea_bags", FERTILIZER_COSTS.urea)
            + bags("dap_bags", FERTILIZER_COSTS.dap)
            + bags("organic_manure_tons", FERTILIZER_COSTS.organic_manure_ton)

\* the value of one line item of get_total_input_cost
InputCostItem(k, crop_type, hectares, use_optimal, seed_key) ==
    CASE k = "land_preparation" ->
            DMul(Dec(LAND_PREP_COSTS.tillage_per_ha
                        + LAND_PREP_COSTS.harrowing_per_ha), hectares)
      [] k = "seeds" ->
            DMul(Dec(SEED_COSTS[seed_key]
                        * Get(SEED_REQUIREMENTS, seed_key,
                              Get(SEED_REQUIREMENTS, crop_type, 0))),
                 hectares)
      [] k = "fertilizers" ->
            DMul(Dec(FertilizerPerHa(FERTILIZER_REQUIREMENTS[crop_type])),
                 hectares)
      [] k = "pesticides" ->
            DAdd(DMul(Dec(PESTICIDE_COSTS.herbicide_per_ha
                            + PESTICIDE_COSTS.insecticide_per_ha), hectares),
                 IF use_optimal
                 THEN DMul(Dec(PESTICIDE_COSTS.fungicide_per_ha), hectares)
                 ELSE Zero)
      [] k = "labor" ->
            DMul(Dec(total_labor_days * LABOR_COSTS.daily_wage), hectares)
      [] k = "equipment" ->
            DAdd(DMul(Dec(EQUIPMENT_COSTS.tractor_ploughing_per_ha
                            + EQUIPMENT_COSTS.tractor_harrowing_per_ha
                            + EQUIPMENT_COSTS.fuel_operations_per_ha), hectares),
                 IF use_optimal
                 THEN DMul(Dec(EQUIPMENT_COSTS.mechanical_harvesting_per_ha),
                           hectares)
                 ELSE Zero)

\* the line items get_total_input_cost enters for a crop
InputCostKeys(crop_type, seed_key) ==
    {"land_preparation", "pesticides", "labor", "equipment"}
        \cup (IF crop_type \in DOMAIN SEED_REQUIREMENTS
                    /\ seed_key \in DOMAIN SEED_COSTS
              THEN {"seeds"} ELSE {})
        \cup (IF crop_type \in DOMAIN FERTILIZER_REQUIREMENTS
              THEN {"fertilizers"} ELSE {})

InputCosts(crop_type, hectares, use_optimal, seed_key) ==
    WithTotal([k \in InputCostKeys(crop_type, seed_key) |->
                  InputCostItem(k, crop_type, hectares, use_optimal, seed_key)])

\* get_total_input_cost(crop_type, hectares, use_optimal)
get_total_input_cost(crop_type, hectares, use_optimal) ==
    InputCosts(crop_type, hectares, use_optimal,
               IF use_optimal THEN crop_type \o "_improved"
               ELSE crop_type \o "_local")

\* the returned dictionary of calculate_expected_revenue
ExpectedRevenue(prod, price_per_kg, transport_cost) ==
    [yield_per_ha_tons |-> prod.yield_per_ha,
     total_production_tons |-> prod.total,
     marketable_production_tons |-> prod.marketable,
     post_harvest_loss_tons |-> DSub(prod.total, prod.marketable),
     price_per_kg |-> price_per_kg,
     gross_revenue |-> DMul(DMul(prod.marketable, Dec(1000)), price_per_kg),
     transportation_cost |-> transport_cost,
     net_revenue |->
        DSub(DMul(DMul(prod.marketable, Dec(1000)), price_per_kg),
             transport_cost)]

ExpectedProduction(crop_type, hectares, use_optimal) ==
    Production(IF use_optimal /\ crop_type \in DOMAIN OPTIMAL_YIELDS
               THEN Tenths(OPTIMAL_YIELDS[crop_type])
               ELSE Tenths(Get(EXPECTED_YIELDS,
                               IF use_optimal THEN crop_type \o "_with_inputs"
                               ELSE crop_type \o "_basic", 0)),
               hectares,
               Hundredths(Get(POST_HARVEST_LOSSES, crop_type, 10)))

RevenueOf(crop_type, prod) ==
    ExpectedRevenue(prod,
        Dec(Get(FARMGATE_PRICES, crop_type, Get(MARKET_PRICES, crop_type, 0))),
        DMul(prod.marketable, Dec(TRANSPORT_COSTS.farm_to_market_per_ton)))

\* calculate_expected_revenue(crop_type, hectares, use_optimal)
calculate_expected_revenue(crop_type, hectares, use_optimal) ==
    RevenueOf(crop_type, ExpectedProduction(crop_type, hectares, use_optimal))

\* the returned dictionary of calculate_profit
ProfitOf(costs, revenue, net_profit) ==
    [costs |-> costs,
     revenue |-> revenue,
     net_profit |-> net_profit,
     roi_percentage |-> RoiOf(net_profit, costs.total_cost),
     break_even_price |->
        PerKg(costs.total_cost, revenue.marketable_production_tons)]

ProfitFrom(costs, revenue) ==
    ProfitOf(costs, revenue, DSub(revenue.net_revenue, costs.total_cost))

\* calculate_profit(crop_type, hectares, use_optimal)
calculate_profit(crop_type, hectares, use_optimal) ==
    ProfitFrom(get_total_input_cost(crop_type, hectares, use_optimal),
               calculate_expected_revenue(crop_type, hectares, use_optimal))

---------------------------------------------------------------------------
(* YieldMaximizationCalculator (yield_maximization.py).                    *)

\* __init__
YieldMaximizationCalculator(crop_type, land_size_hectares) ==
    [class |-> "YieldMaximizationCalculator",
     crop_type |-> crop_type,
     land_size |-> land_size_hectares]

\* the returned dictionary
OptimalResult(this, costs, revenue, profit_analysis, crop_info) ==
    IF IsZero(this.land_size)
    THEN \* 'cost_per_hectare': costs['total_cost'] / self.land_size
         [raised |-> "ZeroDivisionError"]
    ELSE [raised |-> "none",
          crop_type |-> this.crop_type,
          land_size_hectares |-> this.land_size,
          land_size_acres |-> DMul(this.land_size, Lit(2471, 3)),
          cost_breakdown |-> costs,
          cost_per_hectare |-> Ratio(costs.total_cost, this.land_size),
          expected_yield_per_ha_tons |-> revenue.yield_per_ha_tons,
          total_production_tons |-> revenue.total_production_tons,
          total_production_kg |->
              DMul(revenue.total_production_tons, Dec(1000)),
          marketable_production_tons |-> revenue.marketable_production_tons,
          post_harvest_loss_percentage |->
              DMul(Hundredths(Get(POST_HARVEST_LOSSES, this.crop_type, 10)),
                   Dec(100)),
          post_harvest_loss_tons |-> revenue.post_harvest_loss_tons,
          farmgate_price_per_kg |-> revenue.price_per_kg,
          gross_revenue |-> revenue.gross_revenue,
          transportation_cost |-> revenue.transportation_cost,
          net_revenue |-> revenue.net_revenue,
          net_profit |-> profit_analysis.net_profit,
          roi_percentage |-> profit_analysis.roi_percentage,
          break_even_price_per_kg |-> profit_analysis.break_even_price,
          growing_days |-> Get(crop_info, "growing_days", "N/A"),
          seasons_per_year |-> Get(crop_info, "seasons_per_year", 1)]

\* calculate_optimal_plan
calculate_optimal_plan(this) ==
    OptimalResult(this,
                  get_total_input_cost(this.crop_type, this.land_size, TRUE),
                  calculate_expected_revenue(this.crop_type, this.land_size, TRUE),
                  calculate_profit(this.crop_type, this.land_size, TRUE),
                  Get(CROP_SEASONS, this.crop_type, <<>>))

---------------------------------------------------------------------------
(* CostMinimizationCalculator (cost_minimization.py).  budget is a decimal *)
(* or None.                                                                *)

None == [none |-> TRUE]

\* Python truth value of a number or None ("if self.budget", "not self.budget")
Truthy(v) == v # None /\ ~IsZero(v)

\* __init__
CostMinimizationCalculator(crop_type, land_size_hectares, budget) ==
    [class |-> "CostMinimizationCalculator",
     crop_type |-> crop_type,
     land_size |-> land_size_hectares,
     budget |-> budget]

\* the fertilizer cost per hectare of a crop that has requirements
MinimalFertilizer(fert_req) ==
    DAdd(IF "npk_bags" \in DOMAIN fert_req
         THEN DMul(DMul(Dec(fert_req.npk_bags), Lit(5, 1)),
                   Dec(FERTILIZER_COSTS.npk_compound))
         ELSE Zero,
         IF "organic_manure_tons" \in DOMAIN fert_req
         THEN Dec(fert_req.organic_manure_tons
                    * FERTILIZER_COSTS.organic_manure_ton)
         ELSE Dec(1 * FERTILIZER_COSTS.organic_manure_ton))

\* the seed key the cost minimisation looks up
MinimalSeedKey(crop) ==
    IF crop \o "_local" \in DOMAIN SEED_COSTS THEN crop \o "_local" ELSE crop

\* steps 1 to 9: the line items before the yield is known
MinimalItems(crop, land_size, seed_key) ==
    [land_preparation |->
        DMul(DMul(Dec(LAND_PREP_COSTS.tillage_per_ha), Lit(6, 1)), land_size),
     seeds |->
        DMul(Dec(Get(SEED_COSTS, seed_key,
                     Get(SEED_COSTS, crop \o "_improved", 1000))
                    * Get(SEED_REQUIREMENTS, seed_key,
                          Get(SEED_REQUIREMENTS, crop, 25))),
             land_size),
     fertilizers |->
        IF crop \in DOMAIN FERTILIZER_REQUIREMENTS
        THEN DMul(MinimalFertilizer(FERTILIZER_REQUIREMENTS[crop]), land_size)
        ELSE DMul(Dec(FERTILIZER_COSTS.organic_manure_ton), land_size),
     pesticides |->
        DMul(DMul(Dec(PESTICIDE_COSTS.herbicide_per_ha), Lit(7, 1)), land_size),
     labor |->
        DMul(DMul(DMul(Dec(total_labor_days), Lit(5, 1)),
                  Dec(LABOR_COSTS.daily_wage)), land_size),
     equipment |->
        DMul(DMul(Dec(EQUIPMENT_COSTS.tractor_ploughing_per_ha), Lit(4, 1)),
             land_size),
     irrigation |-> Zero,
     transportation |-> Zero,
     storage |-> Zero]

\* the cost dictionary with its preliminary total
MinimalCosts(this) ==
    WithTotal(MinimalItems(this.crop_type, this.land_size,
                           MinimalSeedKey(this.crop_type)))

MinimalProduction(this) ==
    Production(IF this.crop_type \o "_basic" \in DOMAIN EXPECTED_YIELDS
               THEN Tenths(EXPECTED_YIELDS[this.crop_type \o "_basic"])
               ELSE DMul(Tenths(Get(OPTIMAL_YIELDS, this.crop_type, 20)),
                         Lit(55, 2)),
               this.land_size,
               Hundredths(Get(POST_HARVEST_LOSSES, this.crop_type, 10)))

MinimalFinalCosts(costs, marketable_production) ==
    AddTransportStorage(costs,
        DMul(DMul(marketable_production,
                  Dec(TRANSPORT_COSTS.farm_to_market_per_ton)), Lit(7, 1)),
        DMul(marketable_production, Dec(STORAGE_COSTS.on_farm_storage_per_ton)))

\* the returned dictionary
MinimalResult(this, costs, prod, rev, crop_info) ==
    IF IsZero(this.land_size)
    THEN \* 'cost_per_hectare': costs['total_cost'] / self.land_size
         [raised |-> "ZeroDivisionError"]
    ELSE [raised |-> "none",
          crop_type |-> this.crop_type,
          land_size_hectares |-> this.land_size,
          land_size_acres |-> DMul(this.land_size, Lit(2471, 3)),
          strategy |-> "COST MINIMIZATION",
          cost_breakdown |-> costs,
          cost_per_hectare |-> Ratio(costs.total_cost, this.land_size),
          expected_yield_per_ha_tons |-> prod.yield_per_ha,
          total_production_tons |-> prod.total,
          total_production_kg |-> DMul(prod.total, Dec(1000)),
          marketable_production_tons |-> prod.marketable,
          post_harvest_loss_percentage |-> DMul(prod.loss_rate, Dec(100)),
          post_harvest_loss_tons |-> DSub(prod.total, prod.marketable),
          farmgate_price_per_kg |-> rev.price_per_kg,
          gross_revenue |-> rev.gross_revenue,
          transportation_cost |-> costs.transportation,
          net_revenue |-> rev.net_revenue,
          net_profit |-> rev.net_profit,
          roi_percentage |-> RoiOf(rev.net_profit, costs.total_cost),
          break_even_price_per_kg |-> PerKg(costs.total_cost, prod.marketable),
          within_budget |->
              IF ~Truthy(this.budget) THEN TRUE
              ELSE DLe(costs.total_cost, this.budget),
          budget_specified |-> this.budget,
          budget_remaining |->
              IF Truthy(this.budget)
              THEN DSub(this.budget, costs.total_cost) ELSE None,
          growing_days |-> Get(crop_info, "growing_days", "N/A"),
          seasons_per_year |-> Get(crop_info, "seasons_per_year", 1)]

MinimalPriced(this, costs, prod) ==
    MinimalResult(this, costs, prod,
                  Revenue(this.crop_type, prod.marketable,
                          costs.transportation, costs.total_cost),
                  Get(CROP_SEASONS, this.crop_type, <<>>))

MinimalProduced(this, prod) ==
    MinimalPriced(this, MinimalFinalCosts(MinimalCosts(this), prod.marketable),
                  prod)

\* calculate_minimal_plan
calculate_minimal_plan(this) == MinimalProduced(this, MinimalProduction(this))

\* the suggestions for a remaining budget
Suggestions(this, remaining) ==
    (IF DLe(Dec(50000), remaining)
     THEN <<[add |-> "bags of NPK fertilizer",
             bags |-> QFloor(Ratio(remaining, Dec(35000)))]>>
     ELSE <<>>)
    \o (IF DLe(Dec(30000), remaining)
        THEN <<[add |-> "improved seeds",
                ha_worth |->
                    QFloor(Ratio(remaining,
                        Dec(Get(SEED_COSTS, this.crop_type \o "_improved", 2000)
                              * Get(SEED_REQUIREMENTS, this.crop_type, 25))))]>>
        ELSE <<>>)
    \o (IF DLe(Dec(20000), remaining)
        THEN <<[add |-> "additional labor"]>> ELSE <<>>)

\* the dictionary returned for a sufficient budget
Feasible(this, total_cost, remaining, remaining_pct, suggestions) ==
    [raised |-> "none",
     feasible |-> TRUE,
     budget_used |-> total_cost,
     budget_remaining |-> remaining,
     remaining_percentage |-> remaining_pct,
     message |-> [remaining |-> Format0f(Whole(remaining)),
                  remaining_pct |-> Format1f(remaining_pct)],
     suggestions |->
        IF suggestions # <<>> THEN suggestions
        ELSE <<[add |-> "Budget tightly utilized - good planning!"]>>]

FeasibleWith(this, total_cost, remaining) ==
    Feasible(this, total_cost, remaining,
             QMul(Ratio(remaining, this.budget), Dec(100)),
             Suggestions(this, remaining))

\* the dictionary returned for a budget that is too low; message and
\* recommendation are strings, modelled by the numbers they show
Infeasible(this, total_cost) ==
    [raised |-> "none",
     feasible |-> FALSE,
     message |-> [budget |-> Format0f(Whole(this.budget)),
                  hectares |-> this.land_size],
     recommendation |->
        [affordable_land |->
            Format2f(QMul(Ratio(this.budget, total_cost), this.land_size))],
     alternative |->
        "Consider: 1) Increase budget, 2) Reduce land size, 3) Seek credit/loan, 4) Form cooperative"]

\* as Budgeted, but a budget equal to the total cost is too low
Budgeted_EqualIsShort(this, minimal) ==
    IF minimal.raised # "none" THEN [raised |-> minimal.raised]
    ELSE IF DLe(this.budget, minimal.cost_breakdown.total_cost)
    THEN Infeasible(this, minimal.cost_breakdown.total_cost)
    ELSE FeasibleWith(this, minimal.cost_breakdown.total_cost,
                      DSub(this.budget, minimal.cost_breakdown.total_cost))

Budgeted(this, minimal) ==
    IF minimal.raised # "none" THEN [raised |-> minimal.raised]
    ELSE IF DLt(this.budget, minimal.cost_breakdown.total_cost)
    THEN Infeasible(this, minimal.cost_breakdown.total_cost)
    ELSE FeasibleWith(this, minimal.cost_breakdown.total_cost,
                      DSub(this.budget, minimal.cost_breakdown.total_cost))

\* optimize_within_budget
optimize_within_budget(this) ==
    IF ~Truthy(this.budget) THEN [raised |-> "none", value |-> None]
    ELSE Budgeted(this, calculate_minimal_plan(this))

\* a row of compare_strategies taken from a plan
CostRow(label, plan) ==
    [strategy |-> label,
     total_cost |-> plan.cost_breakdown.total_cost,
     production_tons |-> plan.marketable_production_tons,
     revenue |-> plan.net_revenue,
     profit |-> plan.net_profit,
     roi |-> plan.roi_percentage,
     cost_per_kg_produced |->
        PerKg(plan.cost_breakdown.total_cost, plan.marketable_production_tons)]

\* the medium_input row: 60 % of the cost and 75 % of the yield of the
\* yield-maximization plan
\* as MediumRow, but the transport is not taken off the profit
MediumRow_TransportFree(this, cost, marketable, revenue, transport) ==
    [strategy |-> "Medium Input (Some improved inputs)",
     total_cost |-> cost,
     production_tons |-> marketable,
     revenue |-> DSub(revenue, transport),
     profit |-> DSub(revenue, cost),
     roi |-> RoiOf(DSub(revenue, cost), cost),
     cost_per_kg_produced |-> PerKg(cost, marketable)]

MediumRow(this, cost, marketable, revenue, transport) ==
    [strategy |-> "Medium Input (Some improved inputs)",
     total_cost |-> cost,
     production_tons |-> marketable,
     revenue |-> DSub(revenue, transport),
     profit |-> DSub(DSub(revenue, cost), transport),
     roi |-> RoiOf(DSub(DSub(revenue, cost), transport),
                   cost),
     cost_per_kg_produced |-> PerKg(cost, marketable)]

MediumInput(this, optimal, medium_marketable) ==
    MediumRow(this,
        DMul(optimal.cost_breakdown.total_cost, Lit(6, 1)),
        medium_marketable,
        DMul(DMul(medium_marketable, Dec(1000)),
             Dec(Get(FARMGATE_PRICES, this.crop_type, 500))),
        DMul(medium_marketable, Dec(TRANSPORT_COSTS.farm_to_market_per_ton)))

StrategiesCompared(this, minimal, optimal) ==
    IF minimal.raised # "none" THEN [raised |-> minimal.raised]
    ELSE IF optimal.raised # "none" THEN [raised |-> optimal.raised]
    ELSE [raised |-> "none",
          minimal_cost |->
             CostRow("Minimal Cost (Local seeds, organic focus)", minimal),
          medium_input |->
             MediumInput(this, optimal,
                 DMul(DMul(DMul(optimal.expected_yield_per_ha_tons, Lit(75, 2)),
                           this.land_size),
                      DSub(Dec(1),
                           Hundredths(Get(POST_HARVEST_LOSSES,
                                          this.crop_type, 10))))),
          optimal_yield |->
             CostRow("Yield Maximization (All improved inputs)", optimal)]

\* compare_strategies
compare_strategies(this) ==
    StrategiesCompared(this, calculate_minimal_plan(this),
        calculate_optimal_plan(
            YieldMaximizationCalculator(this.crop_type, this.land_size)))

---------------------------------------------------------------------------
(* Strategy comparison and sensitivity sweep of the balanced calculator.   *)

\* max(rows, key=...) and min(rows, key=...) of Python over the sequence of
\* the keys of the rows: the index of the first key that no other key beats.
\* as PyMaxFrom, but a later key wins a tie
RECURSIVE PyMaxFrom_LastWins(_, _, _)
PyMaxFrom_LastWins(keys, i, best) ==
    IF i > Len(keys) THEN best
    ELSE PyMaxFrom_LastWins(keys, i + 1,
            IF QLt(keys[i], keys[best]) THEN best ELSE i)

RECURSIVE PyMaxFrom(_, _, _)
PyMaxFrom(keys, i, best) ==
    IF i > Len(keys) THEN best
    ELSE PyMaxFrom(keys, i + 1, IF QLt(keys[best], keys[i]) THEN i ELSE best)

RECURSIVE PyMinFrom(_, _, _)
PyMinFrom(keys, i, best) ==
    IF i > Len(keys) THEN best
    ELSE PyMinFrom(keys, i + 1, IF QLt(keys[i], keys[best]) THEN i ELSE best)

PyMax(keys) == PyMaxFrom(keys, 2, 1)
PyMin(keys) == PyMinFrom(keys, 2, 1)

\* the three rows of the comparison, in the order of the dictionary
StrategyOrder ==
    <<"cost_minimization", "agricultural_optimization", "yield_maximization">>

\* the row of a plan of the cost minimisation or the yield maximisation
StrategyRow(label, plan, land_size) ==
    [strategy |-> label,
     total_cost |-> plan.cost_breakdown.total_cost,
     production_tons |-> plan.marketable_production_tons,
     revenue |-> plan.net_revenue,
     profit |-> plan.net_profit,
     roi |-> plan.roi_percentage,
     cost_per_kg |->
        PerKg(plan.cost_breakdown.total_cost, plan.marketable_production_tons),
     profit_per_ha |-> Ratio(plan.net_profit, land_size)]

\* the row of the balanced plan
OptimizedRow(label, plan) ==
    [strategy |-> label,
     total_cost |-> plan.cost_breakdown.total_cost,
     production_tons |-> plan.marketable_production_tons,
     revenue |-> plan.net_revenue,
     profit |-> plan.net_profit,
     roi |-> plan.roi_percentage,
     cost_per_kg |-> plan.cost_per_kg_produced,
     profit_per_ha |-> plan.profit_per_hectare]

\* key=lambda x: x['roi'], x['profit'], x['cost_per_kg'] over the rows
RoiOfRows(rows) == [i \in 1..Len(rows) |-> rows[i].roi]
ProfitOfRows(rows) == [i \in 1..Len(rows) |-> Whole(rows[i].profit)]
CostPerKgOfRows(rows) == [i \in 1..Len(rows) |-> rows[i].cost_per_kg]

\* the three recommendations from the rows in dictionary order
Recommendations(values) ==
    [highest_roi |-> values[PyMax(RoiOfRows(values))].strategy,
     highest_profit |-> values[PyMax(ProfitOfRows(values))].strategy,
     most_efficient |-> values[PyMin(CostPerKgOfRows(values))].strategy]

Compared(comparison) ==
    [raised |-> "none"] @@ comparison @@
    [recommendations |->
        Recommendations([i \in 1..3 |-> comparison[StrategyOrder[i]]])]

ComparePlans(this, optimized, yield_max, cost_min) ==
    IF optimized.raised # "none" THEN [raised |-> optimized.raised]
    ELSE IF yield_max.raised # "none" THEN [raised |-> yield_max.raised]
    ELSE IF cost_min.raised # "none" THEN [raised |-> cost_min.raised]
    ELSE Compared(
            [cost_minimization |->
                StrategyRow("Cost Minimization (Lowest investment)",
                            cost_min, this.land_size),
             agricultural_optimization |->
                OptimizedRow("Agricultural Optimization (Balanced approach)",
                             optimized),
             yield_maximization |->
                StrategyRow("Yield Maximization (Maximum production)",
                            yield_max, this.land_size)])

\* compare_all_strategies
compare_all_strategies(this) ==
    ComparePlans(this,
        calculate_optimized_plan(this),
        calculate_optimal_plan(
            YieldMaximizationCalculator(this.crop_type, this.land_size)),
        calculate_minimal_plan(
            CostMinimizationCalculator(this.crop_type, this.land_size, None)))

\* the levels of the sweep, in percent
SweepLevels == <<50, 60, 70, 75, 80, 85, 90, 95, 100>>

\* the scenario recorded for one level from the plan computed at that level
\* as Scenario, but the profit recorded is the net revenue
Scenario_NetRevenue(input_pct, result) ==
    [input_level_pct |-> input_pct,
     total_cost |-> result.cost_breakdown.total_cost,
     production_tons |-> result.marketable_production_tons,
     net_profit |-> result.net_revenue,
     roi |-> result.roi_percentage,
     profit_per_ha |-> result.profit_per_hectare]

Scenario(input_pct, result) ==
    [input_level_pct |-> input_pct,
     total_cost |-> result.cost_breakdown.total_cost,
     production_tons |-> result.marketable_production_tons,
     net_profit |-> result.net_profit,
     roi |-> result.roi_percentage,
     profit_per_ha |-> result.profit_per_hectare]

\* the value sensitivity_analysis returns once the loop is over
\* as Recommended, but the profit and ROI are those of the last scenario
Recommended_LastScenario(scenarios, best_scenario) ==
    [raised |-> "none",
     scenarios |-> scenarios,
     recommended_input_level |-> best_scenario.input_level_pct,
     optimal_profit |-> scenarios[Len(scenarios)].net_profit,
     optimal_roi |-> scenarios[Len(scenarios)].roi]

Recommended(scenarios, best_scenario) ==
    [raised |-> "none",
     scenarios |-> scenarios,
     recommended_input_level |-> best_scenario.input_level_pct,
     optimal_profit |-> best_scenario.net_profit,
     optimal_roi |-> best_scenario.roi]

SensitivityResult(scenarios) ==
    Recommended(scenarios, scenarios[PyMax(RoiOfRows(scenarios))])

\* get_summary_report: the numbers the report text prints of the plan
SummaryReport(results) ==
    IF results.raised # "none" THEN [raised |-> results.raised]
    ELSE [raised |-> "none",
          input_level |-> Format0f(Whole(results.input_level_percentage)),
          total_cost |-> Format0f(Whole(results.cost_breakdown.total_cost)),
          yield_per_hectare |->
             Format2f(Whole(results.expected_yield_per_ha_tons)),
          net_profit |-> Format0f(Whole(results.net_profit)),
          roi |-> Format1f(results.roi_percentage)]

get_summary_report(this) == SummaryReport(calculate_optimized_plan(this))

---------------------------------------------------------------------------
(* The cost-minimization page (CostMinimizationPage.py): its own tables,   *)
(* here for two regions and two crops, and the handler of its button.      *)

regions ==
    [r \in {"Centre", "Far North"} |->
        IF r = "Centre" THEN Lit(25, 2) ELSE Lit(55, 2)]
land_prep_cost == 35000
base_irrigation_cost == 45000
equipment_cost_per_hectare == 15000
labor_cost_per_hectare == 250000
transport_cost_per_ton == 5000
storage_cost_per_ton_month == 1500
storage_months == 2
seed_costs == [Cassava |-> <<600, 400>>, Maize |-> <<1200, 25>>]
fertilizer_costs == [Cassava |-> <<12000, 3>>, Maize |-> <<15000, 4>>]
pesticide_costs == [Cassava |-> <<6000, 4>>, Maize |-> <<7000, 5>>]
expected_yields == [Cassava |-> Dec(18), Maize |-> Lit(28, 1)]
market_prices == [Cassava |-> 85000, Maize |-> 220000]

\* float(text) on the texts a user types in the model
PyFloat(text) ==
    CASE text = "-1" -> [raised |-> "none", value |-> Dec(0 - 1)]
      [] text = "0" -> [raised |-> "none", value |-> Dec(0)]
      [] text = "0.5" -> [raised |-> "none", value |-> Lit(5, 1)]
      [] text = "1" -> [raised |-> "none", value |-> Dec(1)]
      [] text = "100000" -> [raised |-> "none", value |-> Dec(100000)]
      [] text = "1000000" -> [raised |-> "none", value |-> Dec(1000000)]
      [] OTHER -> [raised |-> "ValueError",
                   message |-> "could not convert string to float"]

\* the checks of _get_and_validate_inputs on the two parsed numbers
Validated(page, land_size, budget) ==
    IF land_size.raised # "none" THEN land_size
    ELSE IF DLe(land_size.value, Zero)
    THEN [raised |-> "ValueError", message |-> "Land size must be positive"]
    ELSE IF budget.raised # "none" THEN budget
    ELSE IF DLe(budget.value, Zero)
    THEN [raised |-> "ValueError", message |-> "Budget must be positive"]
    ELSE [raised |-> "none",
          land_size |-> land_size.value,
          budget |-> budget.value,
          region |-> page.region_combo,
          crop |-> page.crop_combo]

\* _get_and_validate_inputs
get_and_validate_inputs(page) ==
    Validated(page, PyFloat(page.land_size_input), PyFloat(page.budget_input))

\* the line items of _calculate_all_costs
PageItems(land_size, crop, irrigation_percentage, expected_yield) ==
    [land_prep |-> DMul(Dec(land_prep_cost), land_size),
     seed_cost |->
        DMul(Dec(seed_costs[crop][1] * seed_costs[crop][2]), land_size),
     fertilizer_cost |->
        DMul(Dec(fertilizer_costs[crop][1] * fertilizer_costs[crop][2]),
             land_size),
     pesticide_cost |->
        DMul(Dec(pesticide_costs[crop][1] * pesticide_costs[crop][2]),
             land_size),
     irrigation_cost |->
        DMul(DMul(Dec(base_irrigation_cost), irrigation_percentage), land_size),
     irrigation_percentage |-> irrigation_percentage,
     equipment_cost |-> DMul(Dec(equipment_cost_per_hectare), land_size),
     labor_cost |-> DMul(Dec(labor_cost_per_hectare), land_size),
     transport_cost |-> DMul(Dec(transport_cost_per_ton), expected_yield),
     storage_cost |->
        DMul(Dec(storage_cost_per_ton_month * storage_months), expected_yield),
     expected_yield |-> expected_yield]

\* the dictionary with total_min_cost
PageTotal(c) ==
    c @@ [total_min_cost |->
            DAdd(DAdd(DAdd(DAdd(DAdd(DAdd(DAdd(DAdd(
                c.land_prep, c.seed_cost), c.fertilizer_cost), c.pesticide_cost),
                c.irrigation_cost), c.equipment_cost), c.labor_cost),
                c.transport_cost), c.storage_cost)]

\* _calculate_all_costs
calculate_all_costs(inputs) ==
    PageTotal(PageItems(inputs.land_size, inputs.crop, regions[inputs.region],
                        DMul(expected_yields[inputs.crop], inputs.land_size)))

\* the returned dictionary of _calculate_projections (the figures the results
\* text shows)
Projections(inputs, market_price, expected_revenue, expected_profit) ==
    [market_price |-> market_price,
     expected_revenue |-> expected_revenue,
     expected_profit |-> expected_profit,
     roi |-> IF DPos(inputs.budget)
             THEN QMul(Ratio(expected_profit, inputs.budget), Dec(100))
             ELSE Whole(Zero)]

ProjectionsFrom(inputs, expected_revenue) ==
    Projections(inputs, market_prices[inputs.crop], expected_revenue,
                DSub(expected_revenue, inputs.budget))

\* _calculate_projections
calculate_projections(inputs, costs) ==
    ProjectionsFrom(inputs,
        DMul(costs.expected_yield, Dec(market_prices[inputs.crop])))

\* _get_roi_assessment
get_roi_assessment(roi) ==
    IF QLt(Whole(Dec(30)), roi) THEN "Excellent returns for minimal investment!"
    ELSE IF QLt(Whole(Dec(15)), roi)
    THEN "Good profit margins with low-cost approach."
    ELSE IF QLt(Whole(Zero), roi)
    THEN "Positive returns, sustainable for small farmers."
    ELSE "Negative returns projected. Reconsider crop or scale."

\* _display_insufficient_budget: the numbers of the warning text
display_insufficient_budget(inputs, costs) ==
    [shown |-> "INSUFFICIENT BUDGET WARNING",
     land_size |-> Format2f(Whole(inputs.land_size)),
     budget |-> Format0f(Whole(inputs.budget)),
     minimum_required |-> Format0f(Whole(costs.total_min_cost)),
     budget_deficit |->
        Format0f(Whole(DSub(costs.total_min_cost, inputs.budget))),
     recommended_land_size |->
        Format2f(QMul(Ratio(inputs.budget, costs.total_min_cost),
                      inputs.land_size))]

\* the headline numbers of the allocation text
ResultsText(inputs, costs, extra_budget, projections) ==
    [shown |-> "COST MINIMIZATION BUDGET ALLOCATION",
     land_size |-> Format2f(Whole(inputs.land_size)),
     budget |-> Format0f(Whole(inputs.budget)),
     minimum_required |-> Format0f(Whole(costs.total_min_cost)),
     extra_buffer |-> Format0f(Whole(extra_budget)),
     extra_pct |->
         Format1f(QMul(Ratio(extra_budget, inputs.budget), Dec(100))),
     expected_revenue |-> Format0f(Whole(projections.expected_revenue)),
     expected_profit |-> Format0f(Whole(projections.expected_profit)),
     roi |-> Format1f(projections.roi),
     roi_assessment |-> get_roi_assessment(projections.roi)]

\* _calculate_budget_allocations, _calculate_projections, _display_results
display_results(inputs, costs) ==
    ResultsText(inputs, costs, DSub(inputs.budget, costs.total_min_cost),
                calculate_projections(inputs, costs))

\* the rest of calculate_optimization once the inputs are valid
Optimized(page, inputs, costs) ==
    IF DLt(inputs.budget, costs.total_min_cost)
    THEN [page |-> [page EXCEPT
              !.results_display = display_insufficient_budget(inputs, costs),
              !.status = "Budget insufficient for this operation"],
          out |-> [raised |-> "none", message_box |-> "none"]]
    ELSE [page |-> [page EXCEPT
              !.results_display = display_results(inputs, costs),
              !.status = "Budget optimized"],
          out |-> [raised |-> "none", message_box |-> "none"]]

Checked(page, inputs) ==
    IF inputs.raised # "none"
    THEN \* except ValueError: a warning box, the page is left as it was
         [page |-> page,
          out |-> [raised |-> "none", message_box |-> "Invalid Input",
                   error |-> inputs.message]]
    ELSE Optimized(page, inputs, calculate_all_costs(inputs))

\* calculate_optimization: what the page shows afterwards and which message
\* box, if any, came up
calculate_optimization(page) == Checked(page, get_and_validate_inputs(page))

\* __init__ and the texts and selections the user has entered
CostMinimizationPage(land_text, budget_text, region, crop) ==
    [class |-> "CostMinimizationPage",
     land_size_input |-> land_text,
     budget_input |-> budget_text,
     region_combo |-> region,
     crop_combo |-> crop,
     results_display |-> [shown |-> ""],
     status |-> "Enter your farm details and budget to optimize costs"]

---------------------------------------------------------------------------
(* The balanced page (AgriculturalOptimizationPage.py): the per-hectare    *)
(* rates it interpolates between and its rule table for the ROI.           *)

\* _initialize_cost_parameters, XAF per hectare
max_land_prep_cost == 85000
min_land_prep_cost == 35000
max_base_irrigation_cost == 180000
min_base_irrigation_cost == 45000
max_equipment_cost == 95000
min_equipment_cost == 15000
max_labor_cost == 120000
min_labor_cost == 250000

\* the flat rates of the yield-maximization page (YieldMaximizationPage.py)
yield_land_prep_cost == 85000
yield_base_irrigation_cost == 180000
yield_equipment_cost_per_hectare == 95000
yield_labor_cost_per_hectare == 120000

\* _calculate_all_costs: the four interpolated rates per hectare
\* as UnitCosts, but at the quality factor 0.75 whatever the one passed
UnitCosts_DefaultQuality(quality) ==
    [land_prep_cost_per_ha |->
        DAdd(Dec(min_land_prep_cost),
             DMul(Dec(max_land_prep_cost - min_land_prep_cost), Lit(75, 2))),
     base_irrigation |->
        DAdd(Dec(min_base_irrigation_cost),
             DMul(Dec(max_base_irrigation_cost - min_base_irrigation_cost),
                  Lit(75, 2))),
     equipment_cost_per_ha |->
        DAdd(Dec(min_equipment_cost),
             DMul(Dec(max_equipment_cost - min_equipment_cost), Lit(75, 2))),
     labor_cost_per_ha |->
        DAdd(Dec(max_labor_cost),
             DMul(Dec(min_labor_cost - max_labor_cost), Lit(25, 2)))]

\* as UnitCosts, but the labor rate is interpolated like the other three
UnitCosts_LaborRises(quality) ==
    [land_prep_cost_per_ha |->
        DAdd(Dec(min_land_prep_cost),
             DMul(Dec(max_land_prep_cost - min_land_prep_cost), quality)),
     base_irrigation |->
        DAdd(Dec(min_base_irrigation_cost),
             DMul(Dec(max_base_irrigation_cost - min_base_irrigation_cost),
                  quality)),
     equipment_cost_per_ha |->
        DAdd(Dec(min_equipment_cost),
             DMul(Dec(max_equipment_cost - min_equipment_cost), quality)),
     labor_cost_per_ha |->
        DAdd(Dec(max_labor_cost),
             DMul(Dec(min_labor_cost - max_labor_cost), quality))]

UnitCosts(quality) ==
    [land_prep_cost_per_ha |->
        DAdd(Dec(min_land_prep_cost),
             DMul(Dec(max_land_prep_cost - min_land_prep_cost), quality)),
     base_irrigation |->
        DAdd(Dec(min_base_irrigation_cost),
             DMul(Dec(max_base_irrigation_cost - min_base_irrigation_cost),
                  quality)),
     equipment_cost_per_ha |->
        DAdd(Dec(min_equipment_cost),
             DMul(Dec(max_equipment_cost - min_equipment_cost), quality)),
     labor_cost_per_ha |->
        DAdd(Dec(max_labor_cost),
             DMul(Dec(min_labor_cost - max_labor_cost),
                  DSub(Dec(1), quality)))]

\* _get_roi_assessment of the balanced page
\* as get_roi_assessment_balanced, but an ROI on a threshold gets the
\* higher assessment
get_roi_assessment_inclusive(roi) ==
    IF ~QLt(roi, Whole(Dec(40)))
    THEN "Excellent investment with strong profit potential!"
    ELSE IF ~QLt(roi, Whole(Dec(25)))
    THEN "Very good returns with balanced approach."
    ELSE IF ~QLt(roi, Whole(Dec(10)))
    THEN "Positive returns with reasonable profit margin."
    ELSE "Lower returns projected. Consider different crop or region."

get_roi_assessment_balanced(roi) ==
    IF QLt(Whole(Dec(40)), roi)
    THEN "Excellent investment with strong profit potential!"
    ELSE IF QLt(Whole(Dec(25)), roi)
    THEN "Very good returns with balanced approach."
    ELSE IF QLt(Whole(Dec(10)), roi)
    THEN "Positive returns with reasonable profit margin."
    ELSE "Lower returns projected. Consider different crop or region."

---------------------------------------------------------------------------
(* The windows (test.py, options_page.py and the three strategy pages).    *)
(* The welcome window is [visible, pages]: pages are the OptionsPage       *)
(* objects made so far, each with its own visibility and, for each of its  *)
(* attributes yield_window, cost_window and optimization_window, whether   *)
(* the strategy page it refers to is visible.  No window has a Qt parent;  *)
(* close() delivers the closeEvent of the window and then hides it.        *)

\* FarmingApp.__init__ and window.show() in main
FarmingApp == [class |-> "FarmingApp", visible |-> TRUE, pages |-> <<>>]

\* OptionsPage.__init__ and show()
OptionsPage ==
    [visible |-> TRUE, yield_window |-> FALSE, cost_window |-> FALSE,
     optimization_window |-> FALSE]

\* the attributes of an options page that refer to strategy pages, each
\* with the handler that opens it
StrategyWindows ==
    [yield_window |-> "open_yield_maximization",
     cost_window |-> "open_cost_minimization",
     optimization_window |-> "open_agricultural_optimization"]

---------------------------------------------------------------------------
(* The state machine.  self is the object a caller holds (for the module-  *)
(* level functions of cameroon_agri_data: the arguments it calls with),    *)
(* ret is the outcome of the call that was made last, and sweep            *)
(* is the position of a running sensitivity_analysis in its loop.          *)

\* bound: the welcome window makes at most MaxOptionsPages options pages
MaxOptionsPages == 2

\* bound: land sizes run from -0.5 ha to MaxLandHalves / 2 ha in half hectares
MaxLandHalves == 2

Crops == {"maize", "rice", "cassava", "groundnut", "beans", "sorghum"}
LandSizes == {Lit(5 * k, 1) : k \in -1..MaxLandHalves}
Priorities == {"balanced", "yield_focus", "cost_focus", "maximum"}
\* no budget, budgets that are not positive, one that is too low for every
\* request, the minimal cost of rice on one hectare, and one that is ample
Budgets ==
    {None, Dec(0), Dec(0 - 50000), Dec(100000), Dec(299365), Dec(2000000)}

\* quality factors from 0 to 1 in quarters, and ROI values in tenths of a
\* percent below, on and above the thresholds of the rule table
QualityFactors == {Lit(25 * k, 2) : k \in 0..4}
RoiValues ==
    {Whole(Lit(n, 1)) :
        n \in {0 - 50, 0, 99, 100, 101, 249, 250, 251, 399, 400, 401, 1000}}

LandTexts == {"", "-1", "0", "0.5", "1"}
BudgetTexts == {"abc", "0", "100000", "1000000"}

Idle == [pc |-> "idle"]
Constructed == [op |-> "__init__", out |-> [raised |-> "none"]]

Instances ==
    {AgriculturalOptimizationCalculator(c, l, p) :
        c \in Crops, l \in LandSizes, p \in Priorities}
    \cup {CostMinimizationCalculator(c, l, b) :
        c \in Crops, l \in LandSizes, b \in Budgets}
    \cup {YieldMaximizationCalculator(c, l) : c \in Crops, l \in LandSizes}
    \cup {[class |-> "cameroon_agri_data", crop_type |-> c, hectares |-> l,
           use_optimal |-> u] :
        c \in Crops, l \in LandSizes, u \in BOOLEAN}
    \cup {[class |-> "AgriculturalOptimizationPage", quality_factor |-> q,
           roi |-> r] :
        q \in QualityFactors, r \in RoiValues}
    \cup {FarmingApp}
    \cup {CostMinimizationPage(lt, bt, r, c) :
        lt \in LandTexts, bt \in BudgetTexts,
        r \in DOMAIN regions, c \in DOMAIN seed_costs}

Init ==
    /\ tables = ReferenceData
    /\ self \in Instances
    /\ ret = Constructed
    /\ sweep = Idle

Returns(op, out) == ret' = [op |-> op, out |-> out]

CalculateOptimizedPlan ==
    /\ self.class = "AgriculturalOptimizationCalculator"
    /\ sweep = Idle
    /\ Returns("calculate_optimized_plan", calculate_optimized_plan(self))
    /\ UNCHANGED <<tables, self, sweep>>

CompareAllStrategies ==
    /\ self.class = "AgriculturalOptimizationCalculator"
    /\ sweep = Idle
    /\ Returns("compare_all_strategies", compare_all_strategies(self))
    /\ UNCHANGED <<tables, self, sweep>>

\* sensitivity_analysis is entered: scenarios = [] and the loop starts
SensitivityAnalysis ==
    /\ self.class = "AgriculturalOptimizationCalculator"
    /\ sweep = Idle
    /\ sweep' = [pc |-> "set", i |-> 1, scenarios |-> <<>>]
    /\ Returns("sensitivity_analysis", [raised |-> "running"])
    /\ UNCHANGED <<tables, self>>

\* top of the loop body: the level is saved and overwritten
SweepSet ==
    /\ sweep.pc = "set"
    /\ self' = [self EXCEPT !.input_level = Lit(SweepLevels[sweep.i], 2)]
    /\ sweep' = [pc |-> "calc", i |-> sweep.i, scenarios |-> sweep.scenarios,
                 original_level |-> self.input_level]
    /\ UNCHANGED <<tables, ret>>

\* self.input_level = original
\* as Restored, but the level of the sweep stays
Restored_Kept(this, original) == this

Restored(this, original) == [this EXCEPT !.input_level = original]

\* rest of the loop body: the plan at this level, its scenario, the restore;
\* an exception of the plan leaves the function before the restore
SweepCalc ==
    /\ sweep.pc = "calc"
    /\ LET result == calculate_optimized_plan(self)
       IN  IF result.raised # "none"
           THEN /\ Returns("sensitivity_analysis", [raised |-> result.raised])
                /\ sweep' = Idle
                /\ UNCHANGED <<tables, self>>
           ELSE /\ self' = Restored(self, sweep.original_level)
                /\ sweep' =
                      [pc |-> IF sweep.i = Len(SweepLevels) THEN "return" ELSE "set",
                       i |-> sweep.i + 1,
                       scenarios |->
                           Append(sweep.scenarios,
                                  Scenario(SweepLevels[sweep.i], result))]
                /\ UNCHANGED <<tables, ret>>

\* after the loop: the best scenario is picked and the result returned
SweepReturn ==
    /\ sweep.pc = "return"
    /\ Returns("sensitivity_analysis", SensitivityResult(sweep.scenarios))
    /\ sweep' = Idle
    /\ UNCHANGED <<tables, self>>

GetSummaryReport ==
    /\ self.class = "AgriculturalOptimizationCalculator"
    /\ sweep = Idle
    /\ Returns("get_summary_report", get_summary_report(self))
    /\ UNCHANGED <<tables, self, sweep>>

CalculateMinimalPlan ==
    /\ self.class = "CostMinimizationCalculator"
    /\ Returns("calculate_minimal_plan", calculate_minimal_plan(self))
    /\ UNCHANGED <<tables, self, sweep>>

OptimizeWithinBudget ==
    /\ self.class = "CostMinimizationCalculator"
    /\ Returns("optimize_within_budget", optimize_within_budget(self))
    /\ UNCHANGED <<tables, self, sweep>>

CompareStrategies ==
    /\ self.class = "CostMinimizationCalculator"
    /\ Returns("compare_strategies", compare_strategies(self))
    /\ UNCHANGED <<tables, self, sweep>>

CalculateOptimalPlan ==
    /\ self.class = "YieldMaximizationCalculator"
    /\ Returns("calculate_optimal_plan", calculate_optimal_plan(self))
    /\ UNCHANGED <<tables, self, sweep>>

\* as CalculateProfit, but get_total_input_cost writes its cost entries into
\* LAND_PREP_COSTS instead of a new dictionary
CalculateProfit_IntoTable ==
    /\ self.class = "cameroon_agri_data"
    /\ Returns("calculate_profit",
               calculate_profit(self.crop_type, self.hectares, self.use_optimal))
    /\ tables' =
          [tables EXCEPT !.LAND_PREP_COSTS =
              @ @@ get_total_input_cost(self.crop_type, self.hectares,
                                        self.use_optimal)]
    /\ UNCHANGED <<self, sweep>>

CalculateProfit ==
    /\ self.class = "cameroon_agri_data"
    /\ Returns("calculate_profit",
               calculate_profit(self.crop_type, self.hectares, self.use_optimal))
    /\ UNCHANGED <<tables, self, sweep>>

\* the Calculate button of the page is clicked
CalculateOptimization ==
    /\ self.class = "CostMinimizationPage"
    /\ self' = calculate_optimization(self).page
    /\ Returns("calculate_optimization", calculate_optimization(self).out)
    /\ UNCHANGED <<tables, sweep>>

\* _calculate_all_costs of the balanced page, for its unit costs
CalculateAllCosts ==
    /\ self.class = "AgriculturalOptimizationPage"
    /\ Returns("_calculate_all_costs",
               [raised |-> "none"] @@ UnitCosts(self.quality_factor))
    /\ UNCHANGED <<tables, self, sweep>>

\* _get_roi_assessment of the balanced page
GetRoiAssessment ==
    /\ self.class = "AgriculturalOptimizationPage"
    /\ Returns("_get_roi_assessment",
               [raised |-> "none",
                roi_assessment |-> get_roi_assessment_balanced(self.roi)])
    /\ UNCHANGED <<tables, self, sweep>>

\* Yes on the welcome window: it hides, a new options page is shown
OnYesClicked ==
    /\ self.class = "FarmingApp"
    /\ self.visible
    /\ Len(self.pages) < MaxOptionsPages
    /\ self' = [self EXCEPT !.visible = FALSE,
                            !.pages = Append(@, OptionsPage)]
    /\ Returns("on_yes_clicked", [raised |-> "none"])
    /\ UNCHANGED <<tables, sweep>>

\* open_yield_maximization, open_cost_minimization and
\* open_agricultural_optimization of a visible options page: the window the
\* attribute refers to is closed, which shows the options page it was opened
\* from, and a new strategy page is shown
OpenStrategyPage ==
    /\ self.class = "FarmingApp"
    /\ \E i \in 1..Len(self.pages), w \in DOMAIN StrategyWindows :
          /\ self.pages[i].visible
          /\ self' = [self EXCEPT !.pages[i][w] = TRUE]
          /\ Returns(StrategyWindows[w], [raised |-> "none"])
    /\ UNCHANGED <<tables, sweep>>

\* Back on a visible options page: close(), whose closeEvent shows the
\* welcome window, then the welcome window is shown
GoBackToWelcome ==
    /\ self.class = "FarmingApp"
    /\ \E i \in 1..Len(self.pages) :
          /\ self.pages[i].visible
          /\ self' = [self EXCEPT !.visible = TRUE,
                                  !.pages[i].visible = FALSE]
    /\ Returns("go_back_to_welcome", [raised |-> "none"])
    /\ UNCHANGED <<tables, sweep>>

\* a visible options page is closed by the user: OptionsPage.closeEvent
OptionsCloseEvent ==
    /\ self.class = "FarmingApp"
    /\ \E i \in 1..Len(self.pages) :
          /\ self.pages[i].visible
          /\ self' = [self EXCEPT !.visible = TRUE,
                                  !.pages[i].visible = FALSE]
    /\ Returns("OptionsPage.closeEvent", [raised |-> "none"])
    /\ UNCHANGED <<tables, sweep>>

\* Back on a visible strategy page: close(), whose closeEvent shows the
\* options page it was opened from, then that options page is shown
GoBack ==
    /\ self.class = "FarmingApp"
    /\ \E i \in 1..Len(self.pages), w \in DOMAIN StrategyWindows :
          /\ self.pages[i][w]
          /\ self' = [self EXCEPT !.pages[i][w] = FALSE,
                                  !.pages[i].visible = TRUE]
    /\ Returns("go_back", [raised |-> "none"])
    /\ UNCHANGED <<tables, sweep>>

\* a visible strategy page is closed by the user: its closeEvent
CloseEvent ==
    /\ self.class = "FarmingApp"
    /\ \E i \in 1..Len(self.pages), w \in DOMAIN StrategyWindows :
          /\ self.pages[i][w]
          /\ self' = [self EXCEPT !.pages[i][w] = FALSE,
                                  !.pages[i].visible = TRUE]
    /\ Returns("closeEvent", [raised |-> "none"])
    /\ UNCHANGED <<tables, sweep>>

Next ==
    \/ CalculateOptimizedPlan
    \/ CompareAllStrategies
    \/ SensitivityAnalysis
    \/ SweepSet
    \/ SweepCalc
    \/ SweepReturn
    \/ GetSummaryReport
    \/ CalculateMinimalPlan
    \/ OptimizeWithinBudget
    \/ CompareStrategies
    \/ CalculateOptimalPlan
    \/ CalculateProfit
    \/ CalculateOptimization
    \/ CalculateAllCosts
    \/ GetRoiAssessment
    \/ OnYesClicked
    \/ OpenStrategyPage
    \/ GoBackToWelcome
    \/ OptionsCloseEvent
    \/ GoBack
    \/ CloseEvent

Spec == Init /\ [][Next]_vars

---------------------------------------------------------------------------
(* Properties.                                                             *)

\* the crops the reference tables were written for
KnownCrops == {"maize", "rice", "cassava", "groundnut", "beans"}

\* the exception the last call ended with, "none" if it returned
Raised == IF "raised" \in DOMAIN ret.out THEN ret.out.raised ELSE "none"

\* the last call returned a dictionary
Returned(op) == ret.op = op /\ Raised = "none"

\* the cost dictionary the last call returned, if it returned one
HasCosts ==
    \/ Returned("calculate_minimal_plan")
    \/ Returned("calculate_optimized_plan")
    \/ Returned("calculate_optimal_plan")
    \/ ret.op = "calculate_profit"
ReturnedCosts ==
    IF ret.op = "calculate_profit" THEN ret.out.costs ELSE ret.out.cost_breakdown

\* the land size of the request
RequestedLand ==
    IF self.class = "cameroon_agri_data" THEN self.hectares ELSE self.land_size

\* C1: for the five crops and a positive land size, in every strategy the
\* total_cost of the returned cost breakdown is the sum of all its other
\* entries, transportation and storage included.
C1_TotalIsSumOfItems ==
    (HasCosts /\ self.crop_type \in KnownCrops /\ DPos(RequestedLand))
        => ReturnedCosts.total_cost
              = SumOver(ReturnedCosts, DOMAIN ReturnedCosts \ {"total_cost"})

C1_Witness ==
    /\ Returned("calculate_optimized_plan")
    /\ self.crop_type = "cassava"
    /\ DPos(self.land_size)
    /\ DPos(ret.out.cost_breakdown.transportation)
    /\ DPos(ret.out.cost_breakdown.storage)
    /\ ret.out.cost_breakdown.total_cost
          = SumOver(ret.out.cost_breakdown,
                    DOMAIN ret.out.cost_breakdown \ {"total_cost"})

\* the same request on twice the land
TwiceTheLand == [self EXCEPT !.land_size = DMul(Dec(2), @)]

Twice(x, y) == y = DMul(Dec(2), x)

\* plan q has twice the amounts of plan p and the same ratios
DoubledPlan(p, q) ==
    /\ DOMAIN q.cost_breakdown = DOMAIN p.cost_breakdown
    /\ \A k \in DOMAIN p.cost_breakdown :
          Twice(p.cost_breakdown[k], q.cost_breakdown[k])
    /\ Twice(p.total_production_tons, q.total_production_tons)
    /\ Twice(p.marketable_production_tons, q.marketable_production_tons)
    /\ Twice(p.gross_revenue, q.gross_revenue)
    /\ Twice(p.net_revenue, q.net_revenue)
    /\ QEq(p.roi_percentage, q.roi_percentage)
    /\ QEq(p.cost_per_hectare, q.cost_per_hectare)
    /\ QEq(p.break_even_price_per_kg, q.break_even_price_per_kg)
    /\ p.expected_yield_per_ha_tons = q.expected_yield_per_ha_tons

\* C2: for every crop, strategy and land size L > 0, the same calculation
\* on 2L returns twice every cost line item, total cost, total and marketable
\* production, gross and net revenue, and the same ROI, cost per hectare,
\* yield per hectare and break-even price per kg.
C2_DoublingLandDoubles ==
    /\ (Returned("calculate_minimal_plan") /\ DPos(self.land_size))
          => DoubledPlan(ret.out, calculate_minimal_plan(TwiceTheLand))
    /\ (Returned("calculate_optimized_plan") /\ DPos(self.land_size))
          => /\ DoubledPlan(ret.out, calculate_optimized_plan(TwiceTheLand))
             /\ QEq(ret.out.profit_per_hectare,
                    calculate_optimized_plan(TwiceTheLand).profit_per_hectare)
             /\ QEq(ret.out.cost_per_kg_produced,
                    calculate_optimized_plan(TwiceTheLand).cost_per_kg_produced)
    /\ (Returned("calculate_optimal_plan") /\ DPos(self.land_size))
          => DoubledPlan(ret.out, calculate_optimal_plan(TwiceTheLand))

C2_Witness ==
    /\ Returned("calculate_optimal_plan")
    /\ self.land_size = Lit(5, 1)
    /\ DPos(ret.out.gross_revenue)
    /\ Twice(ret.out.gross_revenue,
             calculate_optimal_plan(TwiceTheLand).gross_revenue)

\* the last call returned a plan of one of the three strategies
ReturnedPlan ==
    \/ Returned("calculate_minimal_plan")
    \/ Returned("calculate_optimized_plan")
    \/ Returned("calculate_optimal_plan")

\* the gross revenue of the returned plan if its marketable production
\* were sold at the returned break-even price per kg
GrossAtBreakEven ==
    QMul(ret.out.break_even_price_per_kg,
         DMul(ret.out.marketable_production_tons, Dec(1000)))

\* C3: for each strategy, crop and land size with marketable production > 0,
\* the net profit at the reported break-even price (gross revenue at that
\* price minus transport cost minus total cost) is exactly zero.
C3_BreakEvenGivesZeroProfit ==
    (ReturnedPlan /\ DPos(ret.out.marketable_production_tons))
        => QEq(GrossAtBreakEven,
               Whole(DAdd(ret.out.transportation_cost,
                          ret.out.cost_breakdown.total_cost)))

\* the rows of a returned comparison, in dictionary order
Rows == [i \in 1..3 |-> ret.out[StrategyOrder[i]]]

\* key i is the first of the greatest, or of the least, of the keys
FirstMax(keys, i) ==
    /\ \A j \in 1..Len(keys) : ~QLt(keys[i], keys[j])
    /\ \A j \in 1..(i - 1) : QLt(keys[j], keys[i])
FirstMin(keys, i) ==
    /\ \A j \in 1..Len(keys) : ~QLt(keys[j], keys[i])
    /\ \A j \in 1..(i - 1) : QLt(keys[i], keys[j])

\* C4: compare_all_strategies reports as highest_roi the row of maximal roi,
\* as highest_profit the row of maximal profit and as most_efficient the row
\* of minimal cost_per_kg, each time the first such row in the order
\* cost_minimization, agricultural_optimization, yield_maximization.
C4_WinnersAreFirstExtremes ==
    Returned("compare_all_strategies") =>
        /\ \E i \in 1..3 :
              /\ ret.out.recommendations.highest_roi = Rows[i].strategy
              /\ FirstMax(RoiOfRows(Rows), i)
        /\ \E i \in 1..3 :
              /\ ret.out.recommendations.highest_profit = Rows[i].strategy
              /\ FirstMax(ProfitOfRows(Rows), i)
        /\ \E i \in 1..3 :
              /\ ret.out.recommendations.most_efficient = Rows[i].strategy
              /\ FirstMin(CostPerKgOfRows(Rows), i)

\* a comparison whose three rows tie on ROI, reported with the first row,
\* while another row has the highest profit
C4_Witness ==
    /\ Returned("compare_all_strategies")
    /\ QEq(Rows[1].roi, Rows[2].roi)
    /\ QEq(Rows[2].roi, Rows[3].roi)
    /\ ret.out.recommendations.highest_roi = Rows[1].strategy
    /\ ret.out.recommendations.highest_profit # Rows[1].strategy

\* C5: the recommended_input_level of sensitivity_analysis is the level of
\* the first scenario of the sweep whose ROI no other scenario exceeds, and
\* optimal_profit and optimal_roi are the net profit and ROI of that scenario.
C5_RecommendedIsFirstMaxRoi ==
    Returned("sensitivity_analysis") =>
        \E i \in 1..Len(ret.out.scenarios) :
            /\ ret.out.recommended_input_level
                  = ret.out.scenarios[i].input_level_pct
            /\ ret.out.recommended_input_level = SweepLevels[i]
            /\ FirstMax(RoiOfRows(ret.out.scenarios), i)
            /\ ret.out.optimal_profit = ret.out.scenarios[i].net_profit
            /\ ret.out.optimal_roi = ret.out.scenarios[i].roi

\* a sweep whose best level is neither the first nor the last
C5_Witness ==
    /\ Returned("sensitivity_analysis")
    /\ ret.out.recommended_input_level \notin {50, 100}
    /\ \E i \in 1..Len(ret.out.scenarios) :
          QLt(ret.out.scenarios[1].roi, ret.out.scenarios[i].roi)

\* the last call was made and is over
Completed == ret.op # "__init__" /\ Raised # "running"

\* the total cost the calculation of the request arrives at
TotalCostOfRequest ==
    CASE self.class = "AgriculturalOptimizationCalculator" ->
            OptimizedFinalCosts(OptimizedCosts(self),
                                OptimizedProduction(self).marketable).total_cost
      [] self.class = "CostMinimizationCalculator" ->
            MinimalFinalCosts(MinimalCosts(self),
                              MinimalProduction(self).marketable).total_cost
      [] self.class = "YieldMaximizationCalculator" ->
            get_total_input_cost(self.crop_type, self.land_size, TRUE).total_cost
      [] self.class = "cameroon_agri_data" ->
            get_total_input_cost(self.crop_type, self.hectares,
                                 self.use_optimal).total_cost

\* C6: a cost-minimization request for a known crop on a positive land size
\* whose positive budget is strictly less than the minimum cost returns an
\* infeasible result that carries shortfall = minimum cost - budget and
\* recommended land size = budget / minimum cost * requested land size.
C6_InfeasibleCarriesShortfall ==
    (/\ ret.op = "optimize_within_budget"
     /\ self.crop_type \in KnownCrops
     /\ DPos(self.land_size)
     /\ self.budget # None
     /\ DPos(self.budget)
     /\ DLt(self.budget, TotalCostOfRequest))
        => /\ Raised = "none"
           /\ "feasible" \in DOMAIN ret.out
           /\ ~ret.out.feasible
           /\ "shortfall" \in DOMAIN ret.out
           /\ ret.out.shortfall = DSub(TotalCostOfRequest, self.budget)
           /\ "recommended_land_size" \in DOMAIN ret.out
           /\ QEq(ret.out.recommended_land_size,
                  QMul(Ratio(self.budget, TotalCostOfRequest), self.land_size))

\* the number a text of the page stands for is not positive
NotPositiveText(text) ==
    PyFloat(text).raised = "none" /\ ~DPos(PyFloat(text).value)

\* the request has a non-positive land size, a non-positive budget or a
\* priority that is not one of the three defined ones
InvalidRequest ==
    CASE self.class = "AgriculturalOptimizationCalculator" ->
            \/ ~DPos(self.land_size)
            \/ self.priority \notin {"balanced", "yield_focus", "cost_focus"}
      [] self.class = "CostMinimizationCalculator" ->
            \/ ~DPos(self.land_size)
            \/ (self.budget # None /\ ~DPos(self.budget))
      [] self.class = "YieldMaximizationCalculator" -> ~DPos(self.land_size)
      [] self.class = "cameroon_agri_data" -> ~DPos(self.hectares)
      [] self.class = "CostMinimizationPage" ->
            \/ NotPositiveText(self.land_size_input)
            \/ NotPositiveText(self.budget_input)

\* the last call ended with an invalid-input error and no result
Rejected ==
    IF self.class = "CostMinimizationPage"
    THEN ret.out.message_box = "Invalid Input"
    ELSE Raised \in {"InvalidInputError", "ValueError"}

\* C7: a calculation requested with a non-positive land size, a non-positive
\* budget or an undefined priority ends with an invalid-input error and
\* produces no result.
C7_InvalidInputsAreRejected == (Completed /\ InvalidRequest) => Rejected

\* the reference tables have no yield for the crop, or no farmgate price
NoYieldData(crop) ==
    /\ crop \notin DOMAIN OPTIMAL_YIELDS
    /\ crop \o "_with_inputs" \notin DOMAIN EXPECTED_YIELDS
    /\ crop \o "_basic" \notin DOMAIN EXPECTED_YIELDS
NoFarmgatePrice(crop) == crop \notin DOMAIN FARMGATE_PRICES

\* the last call was a plan calculation or calculate_profit
CalculationOver ==
    ret.op \in {"calculate_minimal_plan", "calculate_optimized_plan",
                "calculate_optimal_plan", "calculate_profit"}

\* C8: a calculation on a positive land size for a crop whose yield data or
\* farmgate price is absent from the reference tables fails with an
\* unknown-crop error.
C8_UnknownCropFails ==
    (/\ CalculationOver
     /\ DPos(RequestedLand)
     /\ NoYieldData(self.crop_type) \/ NoFarmgatePrice(self.crop_type))
        => Raised = "UnknownCropError"

\* C9: when the total cost of a calculation is 0, calculate_profit and each
\* plan calculation return normally and report an ROI of 0.
C9_ZeroCostGivesZeroRoi ==
    (CalculationOver /\ IsZero(TotalCostOfRequest))
        => /\ Raised = "none"
           /\ QEq(ret.out.roi_percentage, Whole(Zero))

\* C10: no plan calculation raises a division-by-zero error; it returns a
\* result whatever the land size, the production and the total cost are.
C10_NoDivisionByZero ==
    (ret.op \in {"calculate_minimal_plan", "calculate_optimized_plan",
                 "calculate_optimal_plan"})
        => Raised # "ZeroDivisionError"

\* the calculator as its constructor leaves it for the arguments of self
AsConstructed ==
    CASE self.class = "AgriculturalOptimizationCalculator" ->
            AgriculturalOptimizationCalculator(self.crop_type, self.land_size,
                                               self.priority)
      [] self.class = "CostMinimizationCalculator" ->
            CostMinimizationCalculator(self.crop_type, self.land_size,
                                       self.budget)
      [] self.class = "YieldMaximizationCalculator" ->
            YieldMaximizationCalculator(self.crop_type, self.land_size)
      [] OTHER -> self

\* C11: whenever no call is running and the last call returned a result,
\* the calculator has the fields its constructor gave it, and a plan that
\* was returned is the plan a freshly constructed calculator returns.
C11_NoHiddenState ==
    /\ (sweep = Idle /\ Raised = "none") => self = AsConstructed
    /\ Returned("calculate_optimized_plan")
          => ret.out = calculate_optimized_plan(AsConstructed)
    /\ Returned("get_summary_report")
          => ret.out = get_summary_report(AsConstructed)
    /\ Returned("calculate_minimal_plan")
          => ret.out = calculate_minimal_plan(AsConstructed)
    /\ Returned("calculate_optimal_plan")
          => ret.out = calculate_optimal_plan(AsConstructed)

\* a sweep has returned on a calculator built with another level than the
\* last one of the sweep, and the level is the constructor's again
C11_Witness ==
    /\ Returned("sensitivity_analysis")
    /\ Len(ret.out.scenarios) = Len(SweepLevels)
    /\ self.priority = "cost_focus"
    /\ self.input_level = Lit(65, 2)

\* input levels between 0 and 1: the ends, the levels of the three
\* priorities and the levels of the sweep
YieldLevels ==
    {Lit(k, 2) : k \in {0, 50, 60, 65, 70, 75, 80, 85, 90, 95, 100}}

\* C12: in the balanced strategy, for every crop and any two input levels
\* a <= b in [0,1], the expected yield per hectare at a is at most the one
\* at b; the plan reports the yield of the calculator's level.
C12_YieldNonDecreasing ==
    ret.op = "calculate_optimized_plan" =>
        /\ \A a, b \in YieldLevels :
              DLe(a, b) => DLe(OptimizedYield(self.crop_type, a),
                               OptimizedYield(self.crop_type, b))
        /\ Raised = "none" =>
              ret.out.expected_yield_per_ha_tons
                  = OptimizedYield(self.crop_type, self.input_level)

\* a plan was returned for a crop whose yield differs between the levels
C12_Witness ==
    /\ Returned("calculate_optimized_plan")
    /\ self.crop_type = "rice"
    /\ DLt(OptimizedYield("rice", Lit(50, 2)),
           ret.out.expected_yield_per_ha_tons)
    /\ DLt(ret.out.expected_yield_per_ha_tons,
           OptimizedYield("rice", Lit(100, 2)))

\* C13: in all three strategies, for a known crop on a positive land size,
\* net revenue is gross revenue minus transport cost, the total cost
\* includes a transportation and a storage line item, and net profit is net
\* revenue minus total cost.
C13_SameProfitBasis ==
    (ReturnedPlan /\ self.crop_type \in KnownCrops /\ DPos(self.land_size))
        => /\ ret.out.net_revenue
                 = DSub(ret.out.gross_revenue, ret.out.transportation_cost)
           /\ {"transportation", "storage"} \subseteq DOMAIN ret.out.cost_breakdown
           /\ ret.out.cost_breakdown.transportation
                 = ret.out.transportation_cost
           /\ ret.out.cost_breakdown.total_cost
                 = SumOver(ret.out.cost_breakdown,
                           DOMAIN ret.out.cost_breakdown \ {"total_cost"})
           /\ ret.out.net_profit
                 = DSub(ret.out.net_revenue, ret.out.cost_breakdown.total_cost)

\* C14: while sensitivity_analysis runs, the input_level of the calculator
\* is the level chosen at construction, so that a calculation made on the
\* same calculator during the sweep works at that level.
C14_SweepLeavesInputLevel ==
    (self.class = "AgriculturalOptimizationCalculator" /\ sweep # Idle)
        => /\ self.input_level = AsConstructed.input_level
           /\ calculate_optimized_plan(self)
                 = calculate_optimized_plan(AsConstructed)

\* scenario s carries the level pct and the figures of the plan
ScenarioOfPlan(s, pct, plan) ==
    /\ s.input_level_pct = pct
    /\ s.total_cost = plan.cost_breakdown.total_cost
    /\ s.production_tons = plan.marketable_production_tons
    /\ s.net_profit = plan.net_profit
    /\ s.roi = plan.roi_percentage
    /\ s.profit_per_ha = plan.profit_per_hectare

\* the plan calculate_optimized_plan returns for the crop and land size of
\* self at the input level pct / 100
PlanAtLevel(pct) ==
    calculate_optimized_plan([AsConstructed EXCEPT !.input_level = Lit(pct, 2)])

\* C15: sensitivity_analysis returns exactly one scenario per level of
\* 50, 60, 70, 75, 80, 85, 90, 95, 100 in that order, and the scenario of
\* level L carries the total cost, marketable production, net profit, ROI
\* and profit per hectare of calculate_optimized_plan at input level L/100,
\* whatever the priority of the calculator.
C15_OneScenarioPerLevel ==
    Returned("sensitivity_analysis") =>
        /\ [i \in 1..Len(ret.out.scenarios) |->
                ret.out.scenarios[i].input_level_pct]
              = <<50, 60, 70, 75, 80, 85, 90, 95, 100>>
        /\ \A i \in 1..Len(ret.out.scenarios) :
              ScenarioOfPlan(ret.out.scenarios[i],
                             ret.out.scenarios[i].input_level_pct,
                             PlanAtLevel(ret.out.scenarios[i].input_level_pct))

\* a sweep returned on a calculator built at 85 %, and its scenario of 75 %
\* is not the plan of the calculator's own level
C15_Witness ==
    /\ Returned("sensitivity_analysis")
    /\ self.priority = "yield_focus"
    /\ DPos(self.land_size)
    /\ ret.out.scenarios[4].input_level_pct = 75
    /\ ret.out.scenarios[4].net_profit = PlanAtLevel(75).net_profit
    /\ ret.out.scenarios[4].net_profit # calculate_optimized_plan(self).net_profit

\* C16: the comparison returned by a calculator of one of the three defined
\* priorities is the comparison a calculator of priority 'balanced' returns
\* for the same crop and land size.
C16_ComparisonIgnoresPriority ==
    (/\ Returned("compare_all_strategies")
     /\ self.priority \in {"balanced", "yield_focus", "cost_focus"})
        => ret.out
              = compare_all_strategies(
                    AgriculturalOptimizationCalculator(self.crop_type,
                                                       self.land_size,
                                                       "balanced"))

\* C17: for the five crops, a positive land size and every priority, in
\* the comparison the yield-maximization row has a marketable production
\* at least that of the other two rows, and the cost-minimization row has a
\* total cost at most that of the other two rows.
C17_RowsAreOrdered ==
    (/\ Returned("compare_all_strategies")
     /\ self.crop_type \in KnownCrops
     /\ DPos(self.land_size))
        => /\ Rows[1].strategy = "Cost Minimization (Lowest investment)"
           /\ Rows[3].strategy = "Yield Maximization (Maximum production)"
           /\ \A i \in 1..3 :
                 /\ DLe(Rows[i].production_tons, Rows[3].production_tons)
                 /\ DLe(Rows[1].total_cost, Rows[i].total_cost)

\* the entries a table has for a crop under its own name or as its improved
\* or local variety; the default where it has none
EntriesFor(table, crop, default) ==
    IF DOMAIN table \cap {crop, crop \o "_improved", crop \o "_local"} = {}
    THEN {default}
    ELSE {table[k] : k \in DOMAIN table
                          \cap {crop, crop \o "_improved", crop \o "_local"}}

\* the factor the balanced strategy scales its seeds by
SeedScale ==
    IF self.class = "AgriculturalOptimizationCalculator" THEN self.input_level
    ELSE Dec(1)

\* C18: for the five crops on a positive land size, in each strategy the
\* cost breakdown has a seeds item equal to a seed price of the crop times a
\* seed rate of the crop times the hectares (times the input level in the
\* balanced strategy), with 1000 XAF/kg and 25 kg/ha where the tables have
\* no entry for the crop.
C18_SeedsLineItem ==
    (ReturnedPlan /\ self.crop_type \in KnownCrops /\ DPos(self.land_size))
        => /\ "seeds" \in DOMAIN ret.out.cost_breakdown
           /\ \E p \in EntriesFor(SEED_COSTS, self.crop_type, 1000),
                  q \in EntriesFor(SEED_REQUIREMENTS, self.crop_type, 25) :
                 ret.out.cost_breakdown.seeds
                    = DMul(DMul(Dec(p * q), SeedScale), self.land_size)

\* C19: in the balanced strategy, at every input level in [0,1] the
\* calculator works at (the levels of the sensitivity sweep included), the
\* yield per hectare of a crop with an optimal yield does not exceed that
\* optimal yield, and at input level 1.0 it equals it.
C19_YieldWithinOptimal ==
    (/\ self.class = "AgriculturalOptimizationCalculator"
     /\ self.crop_type \in DOMAIN OPTIMAL_YIELDS
     /\ DLe(Zero, self.input_level)
     /\ DLe(self.input_level, Dec(1)))
        => /\ DLe(OptimizedYield(self.crop_type, self.input_level),
                  Tenths(OPTIMAL_YIELDS[self.crop_type]))
           /\ self.input_level = Dec(1)
                 => OptimizedYield(self.crop_type, self.input_level)
                        = Tenths(OPTIMAL_YIELDS[self.crop_type])

\* C20: for any crop, with or without an entry in FARMGATE_PRICES, a plan
\* returned for a positive land size values the production at the farmgate
\* price per kg that each of the three strategy calculators reports for
\* that crop.
C20_SameFarmgatePrice ==
    (ReturnedPlan /\ DPos(self.land_size))
        => /\ ret.out.farmgate_price_per_kg
                 = calculate_minimal_plan(
                       CostMinimizationCalculator(self.crop_type, self.land_size,
                                                  None)).farmgate_price_per_kg
           /\ ret.out.farmgate_price_per_kg
                 = calculate_optimized_plan(
                       AgriculturalOptimizationCalculator(
                           self.crop_type, self.land_size,
                           "balanced")).farmgate_price_per_kg
           /\ ret.out.farmgate_price_per_kg
                 = calculate_optimal_plan(
                       YieldMaximizationCalculator(
                           self.crop_type, self.land_size)).farmgate_price_per_kg

\* C21: compare_all_strategies never reports as most_efficient a strategy
\* whose marketable production is 0 while another strategy has a positive
\* marketable production.
C21_MostEfficientProduces ==
    Returned("compare_all_strategies") =>
        \A i \in 1..3 :
            ret.out.recommendations.most_efficient = Rows[i].strategy =>
                \/ DPos(Rows[i].production_tons)
                \/ \A j \in 1..3 : ~DPos(Rows[j].production_tons)

\* C22: when calculate_optimized_plan raises inside sensitivity_analysis,
\* the exception leaves sensitivity_analysis and the input_level of the
\* calculator is the level it had before the call, the level of its priority.
C22_RaisedSweepRestoresLevel ==
    (ret.op = "sensitivity_analysis" /\ sweep = Idle /\ Raised # "none")
        => /\ self.input_level = AsConstructed.input_level
           /\ calculate_optimized_plan(self)
                 = calculate_optimized_plan(AsConstructed)

\* the part of the post-harvest loss that the handling of the strategy of
\* the returned plan removes, and the base loss rate of its crop
Improvement ==
    IF ret.op = "calculate_optimized_plan" THEN Lit(3, 1) ELSE Zero
BaseLossRate == Hundredths(Get(POST_HARVEST_LOSSES, self.crop_type, 10))

\* C23: in every plan of the three strategies the loss rate is the base
\* loss rate of the crop times (1 - improvement), with improvement 0.3 in
\* the balanced strategy and 0 in the other two, the marketable production
\* is the total production times (1 - loss rate), marketable production and
\* post-harvest loss add up to the total production, and
\* 0 <= marketable production <= total production.
C23_LossAndMarketable ==
    ReturnedPlan =>
        /\ ret.out.post_harvest_loss_percentage
              = DMul(DMul(BaseLossRate, DSub(Dec(1), Improvement)), Dec(100))
        /\ DMul(ret.out.marketable_production_tons, Dec(100))
              = DMul(ret.out.total_production_tons,
                     DSub(Dec(100), ret.out.post_harvest_loss_percentage))
        /\ DAdd(ret.out.marketable_production_tons,
                ret.out.post_harvest_loss_tons)
              = ret.out.total_production_tons
        /\ DLe(Zero, ret.out.marketable_production_tons)
        /\ DLe(ret.out.marketable_production_tons,
               ret.out.total_production_tons)

ComparisonRows ==
    IF ret.op = "compare_all_strategies" THEN {Rows[i] : i \in 1..3}
    ELSE {ret.out.minimal_cost, ret.out.medium_input, ret.out.optimal_yield}

\* C25: in every row of compare_all_strategies and of compare_strategies,
\* the medium_input row included, profit = revenue - total_cost, and
\* roi = profit / total_cost * 100 whenever total_cost > 0.
C25_RowProfitAndRoi ==
    (Returned("compare_all_strategies") \/ Returned("compare_strategies")) =>
        \A row \in ComparisonRows :
            /\ row.profit = DSub(row.revenue, row.total_cost)
            /\ DPos(row.total_cost) =>
                  QEq(row.roi,
                      QMul(Ratio(row.profit, row.total_cost), Dec(100)))

\* a comparison of the cost minimisation whose medium_input row has a
\* production, a cost and a profit that is positive and below its revenue
C25_Witness ==
    /\ Returned("compare_strategies")
    /\ DPos(ret.out.medium_input.production_tons)
    /\ DPos(ret.out.medium_input.total_cost)
    /\ DPos(ret.out.medium_input.profit)
    /\ DLt(ret.out.medium_input.profit, ret.out.medium_input.revenue)

\* the four assessments of the balanced page
Excellent == "Excellent investment with strong profit potential!"
Good == "Very good returns with balanced approach."
Positive == "Positive returns with reasonable profit margin."
Reconsider == "Lower returns projected. Consider different crop or region."

\* C26: the balanced page gives every ROI exactly one assessment:
\* excellent when ROI > 40, good when 25 < ROI <= 40, positive when
\* 10 < ROI <= 25, and reconsider otherwise.
C26_RoiRuleTable ==
    Returned("_get_roi_assessment") =>
        /\ ret.out.roi_assessment \in {Excellent, Good, Positive, Reconsider}
        /\ ret.out.roi_assessment = Excellent <=> QLt(Whole(Dec(40)), self.roi)
        /\ ret.out.roi_assessment = Good
              <=> (QLt(Whole(Dec(25)), self.roi)
                   /\ ~QLt(Whole(Dec(40)), self.roi))
        /\ ret.out.roi_assessment = Positive
              <=> (QLt(Whole(Dec(10)), self.roi)
                   /\ ~QLt(Whole(Dec(25)), self.roi))
        /\ ret.out.roi_assessment = Reconsider
              <=> ~QLt(Whole(Dec(10)), self.roi)

\* an ROI of exactly 40 was assessed, and it was assessed as good
C26_Witness ==
    /\ Returned("_get_roi_assessment")
    /\ QEq(self.roi, Whole(Dec(40)))
    /\ ret.out.roi_assessment = Good

\* rate x lies between the rates lo and hi
Between(lo, x, hi) == DLe(Dec(lo), x) /\ DLe(x, Dec(hi))

\* C27: for a quality factor between 0 and 1 the labor rate per hectare of
\* the balanced page does not rise with the quality factor, while the
\* land-preparation, base-irrigation and equipment rates do not fall with it
\* and stay between their min and max values.
C27_UnitCostsMonotone ==
    Returned("_calculate_all_costs") =>
        /\ Between(min_land_prep_cost, ret.out.land_prep_cost_per_ha,
                   max_land_prep_cost)
        /\ Between(min_base_irrigation_cost, ret.out.base_irrigation,
                   max_base_irrigation_cost)
        /\ Between(min_equipment_cost, ret.out.equipment_cost_per_ha,
                   max_equipment_cost)
        /\ \A q \in QualityFactors :
              DLe(self.quality_factor, q) =>
                 /\ DLe(UnitCosts(q).labor_cost_per_ha,
                        ret.out.labor_cost_per_ha)
                 /\ DLe(ret.out.land_prep_cost_per_ha,
                        UnitCosts(q).land_prep_cost_per_ha)
                 /\ DLe(ret.out.base_irrigation, UnitCosts(q).base_irrigation)
                 /\ DLe(ret.out.equipment_cost_per_ha,
                        UnitCosts(q).equipment_cost_per_ha)

\* the unit costs at a quality factor strictly between 0 and 1, with a
\* labor rate strictly between the mechanized and the manual rate
C27_Witness ==
    /\ Returned("_calculate_all_costs")
    /\ self.quality_factor = Lit(75, 2)
    /\ DLt(Dec(max_labor_cost), ret.out.labor_cost_per_ha)
    /\ DLt(ret.out.labor_cost_per_ha, Dec(min_labor_cost))
    /\ DLt(Dec(min_land_prep_cost), ret.out.land_prep_cost_per_ha)

\* C29: the per-hectare rates of the balanced page for land preparation,
\* base irrigation, equipment and labor are the flat rates of the
\* yield-maximization page at quality 1.0 and the flat rates of the
\* cost-minimization page at quality 0.0.
C29_EndsMatchFlatRates ==
    Returned("_calculate_all_costs") =>
        /\ self.quality_factor = Dec(1) =>
              /\ ret.out.land_prep_cost_per_ha = Dec(yield_land_prep_cost)
              /\ ret.out.base_irrigation = Dec(yield_base_irrigation_cost)
              /\ ret.out.equipment_cost_per_ha
                    = Dec(yield_equipment_cost_per_hectare)
              /\ ret.out.labor_cost_per_ha = Dec(yield_labor_cost_per_hectare)
        /\ self.quality_factor = Dec(0) =>
              /\ ret.out.land_prep_cost_per_ha = Dec(land_prep_cost)
              /\ ret.out.base_irrigation = Dec(base_irrigation_cost)
              /\ ret.out.equipment_cost_per_ha = Dec(equipment_cost_per_hectare)
              /\ ret.out.labor_cost_per_ha = Dec(labor_cost_per_hectare)

\* the unit costs at quality 0.0, with the labor rate of manual work
C29_Witness ==
    /\ Returned("_calculate_all_costs")
    /\ IsZero(self.quality_factor)
    /\ ret.out.labor_cost_per_ha = Dec(min_labor_cost)

\* C28: no operation of the calculators or of the helper functions modifies
\* a reference data table: after any sequence of calls the tables are what
\* they were when the module was loaded.
C28_TablesAreReadOnly == tables = ReferenceData

\* a whole sensitivity sweep, nine plans, has run and returned
C28_Witness ==
    /\ Returned("sensitivity_analysis")
    /\ Len(ret.out.scenarios) = Len(SweepLevels)
    /\ tables = ReferenceData

\* the options pages that are visible
VisibleOptionsPages == {i \in 1..Len(self.pages) : self.pages[i].visible}

\* C30: whatever the user does with the windows, the welcome window and an
\* options page are never visible together, and at most one options page is
\* visible.
C30_OneWindowOfNavigation ==
    self.class = "FarmingApp" =>
        /\ ~(self.visible /\ VisibleOptionsPages # {})
        /\ Cardinality(VisibleOptionsPages) <= 1

=============================================================================
